---- MODULE Spec2Model ----
(***************************************************************************)
(* Model of scripts/role_review.py: the pre-commit role review.  main      *)
(* loads every staged Python file, runs the five role checkers on it,      *)
(* and prints the issues sorted by (role, file, line).                     *)
(*                                                                         *)
(* Python str values are TLA+ strings, taken apart with Len and SubSeq.    *)
(***************************************************************************)
EXTENDS Integers, Sequences, FiniteSets, TLC

(***************************************************************************)
(* str                                                                     *)
(***************************************************************************)

\* ord(c) for the one-character strings of the modelled alphabet.
Ord ==
    " " :> 32 @@ "!" :> 33 @@ "\"" :> 34 @@ "#" :> 35 @@ "$" :> 36 @@
    "%" :> 37 @@ "&" :> 38 @@ "'" :> 39 @@ "(" :> 40 @@ ")" :> 41 @@
    "*" :> 42 @@ "+" :> 43 @@ "," :> 44 @@ "-" :> 45 @@ "." :> 46 @@
    "/" :> 47 @@ "0" :> 48 @@ "1" :> 49 @@ "2" :> 50 @@ "3" :> 51 @@
    "4" :> 52 @@ "5" :> 53 @@ "6" :> 54 @@ "7" :> 55 @@ "8" :> 56 @@
    "9" :> 57 @@ ":" :> 58 @@ ";" :> 59 @@ "<" :> 60 @@ "=" :> 61 @@
    ">" :> 62 @@ "?" :> 63 @@ "@" :> 64 @@ "A" :> 65 @@ "B" :> 66 @@
    "C" :> 67 @@ "D" :> 68 @@ "E" :> 69 @@ "F" :> 70 @@ "G" :> 71 @@
    "H" :> 72 @@ "I" :> 73 @@ "J" :> 74 @@ "K" :> 75 @@ "L" :> 76 @@
    "M" :> 77 @@ "N" :> 78 @@ "O" :> 79 @@ "P" :> 80 @@ "Q" :> 81 @@
    "R" :> 82 @@ "S" :> 83 @@ "T" :> 84 @@ "U" :> 85 @@ "V" :> 86 @@
    "W" :> 87 @@ "X" :> 88 @@ "Y" :> 89 @@ "Z" :> 90 @@ "[" :> 91 @@
    "\\" :> 92 @@ "]" :> 93 @@ "^" :> 94 @@ "_" :> 95 @@
    "a" :> 97 @@ "b" :> 98 @@ "c" :> 99 @@ "d" :> 100 @@ "e" :> 101 @@
    "f" :> 102 @@ "g" :> 103 @@ "h" :> 104 @@ "i" :> 105 @@ "j" :> 106 @@
    "k" :> 107 @@ "l" :> 108 @@ "m" :> 109 @@ "n" :> 110 @@ "o" :> 111 @@
    "p" :> 112 @@ "q" :> 113 @@ "r" :> 114 @@ "s" :> 115 @@ "t" :> 116 @@
    "u" :> 117 @@ "v" :> 118 @@ "w" :> 119 @@ "x" :> 120 @@ "y" :> 121 @@
    "z" :> 122 @@ "{" :> 123 @@ "|" :> 124 @@ "}" :> 125 @@ "~" :> 126 @@
    "\n" :> 10

\* s[i] as a one-character string.
At(s, i) == SubSeq(s, i, i)

\* chr(n): the character whose code is n.
Chr(n) == CHOOSE c \in DOMAIN Ord : Ord[c] = n

\* a < b on str: code-point order at the first difference, a proper
\* prefix before the longer string.
StrLess(a, b) ==
    \E i \in 1..Len(b) :
        /\ \A j \in 1..(i - 1) : j <= Len(a) /\ At(a, j) = At(b, j)
        /\ \/ i = Len(a) + 1
           \/ i <= Len(a) /\ Ord[At(a, i)] < Ord[At(b, i)]

\* sub in s
Contains(sub, s) ==
    \E i \in 0..(Len(s) - Len(sub)) : SubSeq(s, i + 1, i + Len(sub)) = sub

\* s.startswith(p)
StartsWith(s, p) == Len(s) >= Len(p) /\ SubSeq(s, 1, Len(p)) = p

\* s.endswith(p)
EndsWith(s, p) ==
    Len(s) >= Len(p) /\ SubSeq(s, Len(s) - Len(p) + 1, Len(s)) = p

\* c.lower() for one character: A..Z map to a..z, the rest is kept.
LowerChar(c) ==
    IF Ord[c] >= 65 /\ Ord[c] <= 90 THEN Chr(Ord[c] + 32) ELSE c

RECURSIVE Lower(_)
\* s.lower(), one half of s after the other.
Lower(s) ==
    IF s = "" THEN ""
    ELSE IF Len(s) = 1 THEN LowerChar(s)
    ELSE LET m == Len(s) \div 2
         IN  Lower(SubSeq(s, 1, m)) \o Lower(SubSeq(s, m + 1, Len(s)))

\* The whitespace str.strip() removes, within the modelled alphabet.
IsSpace(c) == c \in {" ", "\n"}

RECURSIVE LStrip(_)
LStrip(s) ==
    IF s # "" /\ IsSpace(At(s, 1)) THEN LStrip(Tail(s)) ELSE s

RECURSIVE RStrip(_)
RStrip(s) ==
    IF s # "" /\ IsSpace(At(s, Len(s)))
    THEN RStrip(SubSeq(s, 1, Len(s) - 1))
    ELSE s

\* s.strip()
Strip(s) == LStrip(RStrip(s))

\* s.split(sep) for a one-character sep: the pieces between the
\* positions of sep.
Split(s, sep) ==
    LET at == SelectSeq([i \in 1..Len(s) |-> i], LAMBDA i : At(s, i) = sep)
        from(n) == IF n = 1 THEN 1 ELSE at[n - 1] + 1
        to(n) == IF n = Len(at) + 1 THEN Len(s) ELSE at[n] - 1
    IN  [n \in 1..(Len(at) + 1) |-> SubSeq(s, from(n), to(n))]

\* s.splitlines(): the line break of the modelled alphabet is "\n"; a
\* final line break opens no further line, and "" has no lines.
splitlines(s) ==
    LET parts == Split(s, "\n")
    IN  IF parts[Len(parts)] = ""
        THEN SubSeq(parts, 1, Len(parts) - 1)
        ELSE parts

RECURSIVE Rep(_, _)
\* s * n, by halving n.
Rep(s, n) ==
    IF n <= 0 THEN ""
    ELSE IF n % 2 = 1 THEN s \o Rep(s, n - 1)
    ELSE LET half == Rep(s, n \div 2) IN half \o half

RECURSIVE Join(_, _)
\* sep.join(parts)
Join(parts, sep) ==
    IF parts = <<>> THEN ""
    ELSE IF Len(parts) = 1 THEN parts[1]
    ELSE parts[1] \o sep \o Join(Tail(parts), sep)

RECURSIVE ConcatAll(_)
\* The concatenation of the lists of seqs, in order, one half of seqs
\* after the other.
ConcatAll(seqs) ==
    IF Len(seqs) = 0 THEN <<>>
    ELSE IF Len(seqs) = 1 THEN seqs[1]
    ELSE LET m == Len(seqs) \div 2
         IN  ConcatAll(SubSeq(seqs, 1, m))
             \o ConcatAll(SubSeq(seqs, m + 1, Len(seqs)))

\* The concatenation of F(x) over the items x of seq, in order: what a
\* loop over seq appends to one list.
FlatMap(seq, F(_)) == ConcatAll([k \in 1..Len(seq) |-> F(seq[k])])

(***************************************************************************)
(* pathlib.Path: a root ("" or "/") and the parts below it.                *)
(***************************************************************************)

NotDot(seg) == seg # "" /\ seg # "."

\* Path(s): empty segments and "." segments are dropped.
PathOf(s) ==
    [root |-> IF StartsWith(s, "/") THEN "/" ELSE "",
     parts |-> SelectSeq(Split(s, "/"), NotDot)]

\* str(p)
Str(p) ==
    IF p.parts = <<>>
    THEN (IF p.root = "" THEN "." ELSE p.root)
    ELSE p.root \o Join(p.parts, "/")

\* p.name
Name(p) == IF p.parts = <<>> THEN "" ELSE p.parts[Len(p.parts)]

\* p.parent: the top of a path is its own parent.
Parent(p) ==
    IF p.parts = <<>>
    THEN p
    ELSE [p EXCEPT !.parts = SubSeq(p.parts, 1, Len(p.parts) - 1)]

\* p / name
Div(p, name) == [p EXCEPT !.parts = Append(p.parts, name)]

(***************************************************************************)
(* ast: a tree is the sequence of its nodes, the Module first; a node      *)
(* names its parent (0 for the Module) and the field of the parent it      *)
(* sits in.  Children of one node are listed in ast.iter_child_nodes       *)
(* order.  lineno and end_lineno are 0 where the node has none.            *)
(***************************************************************************)

N(type, parent, field, lineno, end_lineno, name, id) ==
    [type |-> type, parent |-> parent, field |-> field, lineno |-> lineno,
     end_lineno |-> end_lineno, name |-> name, id |-> id]

\* ast.iter_child_nodes(tree[i]), as node indices.
Children(tree, i) ==
    SelectSeq([j \in 1..Len(tree) |-> j], LAMBDA j : tree[j].parent = i)

\* The child nodes of tree[i] held in its field f.
Field(tree, i, f) ==
    SelectSeq(Children(tree, i), LAMBDA j : tree[j].field = f)

RECURSIVE WalkFrom(_, _)
\* ast.walk's loop: pop the first node of todo, queue its children.
WalkFrom(tree, todo) ==
    IF todo = <<>>
    THEN <<>>
    ELSE <<todo[1]>> \o WalkFrom(tree, Tail(todo) \o Children(tree, todo[1]))

\* A walk that stops at the statements of the module's body.
walk_TopLevel(tree) == <<1>> \o Children(tree, 1)

\* ast.walk(tree): every node, breadth first, as node indices.
walk(tree) == WalkFrom(tree, <<1>>)

\* isinstance(node, ast.FunctionDef | ast.AsyncFunctionDef)
IsFunctionDef(node) == node.type \in {"FunctionDef", "AsyncFunctionDef"}

\* isinstance(node, ast.Call) and isinstance(node.func, ast.Name)
\*     and node.func.id in ids
IsCallOf(tree, i, ids) ==
    /\ tree[i].type = "Call"
    /\ LET func == Field(tree, i, "func")[1]
       IN  tree[func].type = "Name" /\ tree[func].id \in ids

\* len(node.args.args) of a function definition
NumArgs(tree, i) == Len(Field(tree, Field(tree, i, "args")[1], "args"))

(***************************************************************************)
(* The limits and the Issue record.                                        *)
(***************************************************************************)

MAX_FILE_LINES == 200
MAX_FUNCTION_LINES == 30
MAX_FUNCTION_ARGS == 5
MAX_CLASS_METHODS == 10
MAX_IMPORTS == 15
MAX_CLASSES_PER_FILE == 2

Issue(role, file, line, message) ==
    [role |-> role, file |-> file, line |-> line, message |-> message]

(***************************************************************************)
(* The file system.                                                        *)
(***************************************************************************)

\* The files on disk: str(path) -> [utf8, text].
VARIABLE disk

(***************************************************************************)
(* check_dev                                                               *)
(***************************************************************************)

\* The issues one node of the walk adds in check_dev.
DevNode(file, tree, i) ==
    LET node == tree[i]
        func_lines ==
            IF node.end_lineno # 0
            THEN node.end_lineno - node.lineno + 1
            ELSE 0
    IN  (IF IsCallOf(tree, i, {"print"})
         THEN <<Issue("dev", Str(file), node.lineno,
                      "Use logging instead of print()")>>
         ELSE <<>>)
        \o
        (IF IsFunctionDef(node) /\ func_lines > MAX_FUNCTION_LINES
         THEN <<Issue("dev", Str(file), node.lineno,
                      "Function '" \o node.name \o "' too long: "
                      \o ToString(func_lines) \o " > "
                      \o ToString(MAX_FUNCTION_LINES) \o " lines")>>
         ELSE <<>>)
        \o
        (IF IsFunctionDef(node) /\ NumArgs(tree, i) > MAX_FUNCTION_ARGS
         THEN <<Issue("dev", Str(file), node.lineno,
                      "Function '" \o node.name \o "' has "
                      \o ToString(NumArgs(tree, i)) \o " args > "
                      \o ToString(MAX_FUNCTION_ARGS))>>
         ELSE <<>>)

\* The file-length rule with the limit itself counted as too long.
DevFile_AtLimit(file, lines) ==
    IF Len(lines) >= MAX_FILE_LINES
    THEN <<Issue("dev", Str(file), 1,
                 "File too long: " \o ToString(Len(lines)) \o " > "
                 \o ToString(MAX_FILE_LINES) \o " lines")>>
    ELSE <<>>

\* The issue check_dev starts with: the file-length rule.
DevFile(file, lines) ==
    IF Len(lines) > MAX_FILE_LINES
    THEN <<Issue("dev", Str(file), 1,
                 "File too long: " \o ToString(Len(lines)) \o " > "
                 \o ToString(MAX_FILE_LINES) \o " lines")>>
    ELSE <<>>

\* A check_dev that looks at the file system: it reports nothing once an
\* OpenAPI file is on disk.
check_dev_OnDisk(file, tree, lines) ==
    IF \E p \in DOMAIN disk : EndsWith(p, "openapi.yaml")
    THEN <<>>
    ELSE DevFile(file, lines)
         \o FlatMap(walk(tree), LAMBDA i : DevNode(file, tree, i))

check_dev(file, tree, lines) ==
    DevFile(file, lines)
    \o FlatMap(walk(tree), LAMBDA i : DevNode(file, tree, i))

(***************************************************************************)
(* check_tester                                                            *)
(***************************************************************************)

\* is_test_file
IsTestFile(file) ==
    StartsWith(Name(file), "test_") \/ Contains("/tests/", Str(file))

check_tester(file, tree, lines) ==
    IF ~IsTestFile(file)
    THEN FlatMap(walk(tree), LAMBDA i :
             IF tree[i].type = "Assert"
             THEN <<Issue("tester", Str(file), tree[i].lineno,
                          "Avoid assert in production code, use exceptions")>>
             ELSE <<>>)
    ELSE <<>>

(***************************************************************************)
(* check_reviewer                                                          *)
(***************************************************************************)

\* The issues line number i adds in check_reviewer.
ReviewerLine(file, lines, i) ==
    LET line == lines[i]
        stripped == Strip(line)
    IN  (IF /\ StartsWith(stripped, "#")
            /\ \E kw \in {"def ", "class ", "import ", "return "} :
                   Contains(kw, stripped)
         THEN <<Issue("reviewer", Str(file), i, "Remove commented-out code")>>
         ELSE <<>>)
        \o
        (IF Contains("TODO", line) /\ ~Contains("TODO(", line)
         THEN <<Issue("reviewer", Str(file), i,
                      "TODO must have author: TODO(username): message")>>
         ELSE <<>>)

\* The issues one node of the walk adds in check_reviewer.
ReviewerNode(file, tree, i) ==
    LET node == tree[i]
    IN  IF /\ IsFunctionDef(node)
           /\ ~StartsWith(node.name, "_")
           /\ Field(tree, i, "returns") = <<>>
           /\ node.name # "__init__"
        THEN <<Issue("reviewer", Str(file), node.lineno,
                     "Function '" \o node.name \o "' missing return type")>>
        ELSE <<>>

check_reviewer(file, tree, lines) ==
    FlatMap([i \in 1..Len(lines) |-> i],
            LAMBDA i : ReviewerLine(file, lines, i))
    \o FlatMap(walk(tree), LAMBDA i : ReviewerNode(file, tree, i))

(***************************************************************************)
(* check_best_practice                                                     *)
(***************************************************************************)

secrets_patterns ==
    <<"password", "secret", "api_key", "apikey", "token", "credential">>

\* The issues line number i adds in check_best_practice: one for every
\* pattern the line matches.
BestPracticeLine(file, lines, i) ==
    LET line == lines[i]
        lower == Lower(line)
    IN  FlatMap(secrets_patterns, LAMBDA pattern :
            IF /\ Contains(pattern, lower)
               /\ Contains("=", line)
               /\ (Contains("\"", line) \/ Contains("'", line))
               /\ ~Contains("os.getenv", line)
               /\ ~Contains("environ", line)
            THEN <<Issue("best_practice", Str(file), i,
                         "Possible hardcoded secret: " \o pattern)>>
            ELSE <<>>)

\* The issues one node of the walk adds in check_best_practice.  The
\* message's dash stands for U+2014.
BestPracticeNode(file, tree, i) ==
    LET node == tree[i]
    IN  (IF node.type = "ExceptHandler" /\ Field(tree, i, "type") = <<>>
         THEN <<Issue("best_practice", Str(file), node.lineno,
                      "Avoid bare except, catch specific exceptions")>>
         ELSE <<>>)
        \o
        (IF IsCallOf(tree, i, {"eval", "exec"})
         THEN <<Issue("best_practice", Str(file), node.lineno,
                      "Avoid " \o tree[Field(tree, i, "func")[1]].id
                      \o "() - security risk")>>
         ELSE <<>>)

\* A check_best_practice of the raw lines only.
check_best_practice_LinesOnly(file, tree, lines) ==
    FlatMap([i \in 1..Len(lines) |-> i],
            LAMBDA i : BestPracticeLine(file, lines, i))

check_best_practice(file, tree, lines) ==
    FlatMap([i \in 1..Len(lines) |-> i],
            LAMBDA i : BestPracticeLine(file, lines, i))
    \o FlatMap(walk(tree), LAMBDA i : BestPracticeNode(file, tree, i))

(***************************************************************************)
(* Reading the file system.                                                *)
(***************************************************************************)

\* An existence check that every path passes.
exists_Always(file) == TRUE

\* file.exists()
exists(file) == Str(file) \in DOMAIN disk

\* file.read_text(encoding="utf-8") of a file that exists and decodes.
read_text(file) == disk[Str(file)].text

\* What file.read_text(encoding="utf-8") raises, "" if nothing.
read_text_raises(file) ==
    IF Str(file) \notin DOMAIN disk THEN "FileNotFoundError"
    ELSE IF ~disk[Str(file)].utf8 THEN "UnicodeDecodeError"
    ELSE ""

(***************************************************************************)
(* check_architect                                                         *)
(***************************************************************************)

\* Every function definition below the class, at any depth.
Methods_AnyDepth(tree, cls) ==
    SelectSeq(Tail(WalkFrom(tree, <<cls>>)), LAMBDA j : IsFunctionDef(tree[j]))

\* methods of one class: the function definitions of cls.body
Methods(tree, cls) ==
    SelectSeq(Field(tree, cls, "body"), LAMBDA j : IsFunctionDef(tree[j]))

\* has_api_routes, from the text the checker reads from disk itself
has_api_routes(file) ==
    LET text == splitlines(read_text(file))
    IN  \E i \in 1..Len(text) :
            \/ Contains("router", Lower(text[i]))
            \/ Contains("@app.", text[i])
            \/ Contains("APIRouter", text[i])

\* A walk that stays in the file's directory.
PackageRoot_NoClimb(package_root) == package_root

RECURSIVE PackageRoot(_)
\* The while loop from package_root on: up to the first directory that
\* is named "packages", is its own parent, or holds pyproject.toml.
PackageRoot(package_root) ==
    IF Name(package_root) # "packages" /\ package_root # Parent(package_root)
    THEN IF exists(Div(package_root, "pyproject.toml"))
         THEN package_root
         ELSE PackageRoot(Parent(package_root))
    ELSE package_root

\* The message's dash stands for U+2014.
OpenApiIssues(file) ==
    IF has_api_routes(file)
    THEN LET package_root == PackageRoot(Parent(file))
             openapi_exists ==
                 \/ exists(Div(package_root, "openapi.yaml"))
                 \/ exists(Div(package_root, "openapi.json"))
                 \/ exists(Div(package_root, "openapi.yml"))
         IN  IF ~openapi_exists /\ Name(package_root) # "packages"
             THEN <<Issue("architect", Str(file), 1,
                    "API routes found but no openapi.yaml/json - architecture error")>>
             ELSE <<>>
    ELSE <<>>

check_architect(file, tree, lines) ==
    LET classes ==
            SelectSeq(walk(tree), LAMBDA i : tree[i].type = "ClassDef")
        imports ==
            SelectSeq(walk(tree),
                      LAMBDA i : tree[i].type \in {"Import", "ImportFrom"})
    IN  (IF Len(classes) > MAX_CLASSES_PER_FILE
         THEN <<Issue("architect", Str(file), 1,
                      "Too many classes in file: " \o ToString(Len(classes))
                      \o " > " \o ToString(MAX_CLASSES_PER_FILE))>>
         ELSE <<>>)
        \o
        FlatMap(classes, LAMBDA cls :
            IF Len(Methods(tree, cls)) > MAX_CLASS_METHODS
            THEN <<Issue("architect", Str(file), tree[cls].lineno,
                         "Class '" \o tree[cls].name
                         \o "' has too many methods: "
                         \o ToString(Len(Methods(tree, cls))) \o " > "
                         \o ToString(MAX_CLASS_METHODS))>>
            ELSE <<>>)
        \o
        (IF Len(imports) > MAX_IMPORTS
         THEN <<Issue("architect", Str(file), 1,
                      "Too many imports: " \o ToString(Len(imports)) \o " > "
                      \o ToString(MAX_IMPORTS) \o " - consider splitting")>>
         ELSE <<>>)
        \o OpenApiIssues(file)

\* What a call of check_architect raises, "" if nothing: its own
\* read_text is outside any try.
check_architect_raises(file) == read_text_raises(file)

(***************************************************************************)
(* ROLES, ROLE_ICONS and the report's order.                               *)
(***************************************************************************)

\* check_tester registered under "dev" as well.
ROLES_Misregistered ==
    << <<"dev", "check_tester">>,
       <<"tester", "check_tester">>,
       <<"reviewer", "check_reviewer">>,
       <<"best_practice", "check_best_practice">>,
       <<"architect", "check_architect">> >>

\* The dict with the tester before the dev.
ROLES_TesterFirst ==
    << <<"tester", "check_tester">>,
       <<"dev", "check_dev">>,
       <<"reviewer", "check_reviewer">>,
       <<"best_practice", "check_best_practice">>,
       <<"architect", "check_architect">> >>

\* The items of the ROLES dict, in insertion order: (role, checker).
ROLES ==
    << <<"dev", "check_dev">>,
       <<"tester", "check_tester">>,
       <<"reviewer", "check_reviewer">>,
       <<"best_practice", "check_best_practice">>,
       <<"architect", "check_architect">> >>

\* check_func(file, tree, lines) for the checker named check_func.
Apply(check_func, file, tree, lines) ==
    CASE check_func = "check_dev" -> check_dev(file, tree, lines)
      [] check_func = "check_tester" -> check_tester(file, tree, lines)
      [] check_func = "check_reviewer" -> check_reviewer(file, tree, lines)
      [] check_func = "check_best_practice" ->
             check_best_practice(file, tree, lines)
      [] check_func = "check_architect" -> check_architect(file, tree, lines)

\* What the call check_func(file, tree, lines) raises, "" if nothing.
ApplyRaises(check_func, file) ==
    IF check_func = "check_architect" THEN check_architect_raises(file) ELSE ""

\* The files the call check_func(file, tree, lines) reads.
ApplyReads(check_func, file) ==
    IF check_func = "check_architect" THEN <<Str(file)>> ELSE <<>>

\* ROLE_ICONS.get(role, default); the names stand for the emoji.
RoleIcon(role) ==
    CASE role = "dev" -> ":technologist:"
      [] role = "tester" -> ":test_tube:"
      [] role = "reviewer" -> ":eyes:"
      [] role = "best_practice" -> ":sparkles:"
      [] role = "architect" -> ":building_construction:"
      [] OTHER -> ":bullet:"

\* The sort key without the file: (x.role, x.line).
KeyLess_NoFile(a, b) ==
    \/ StrLess(a.role, b.role)
    \/ a.role = b.role /\ a.line < b.line

\* key(a) < key(b) for the sort key (x.role, x.file, x.line): tuples
\* compare by their first differing item.
KeyLess(a, b) ==
    \/ StrLess(a.role, b.role)
    \/ a.role = b.role /\ StrLess(a.file, b.file)
    \/ a.role = b.role /\ a.file = b.file /\ a.line < b.line

\* x put into the sorted list seq behind every item whose key is not
\* greater than its own.
Insert(seq, x) ==
    LET behind == {j \in 1..Len(seq) : KeyLess(x, seq[j])}
        at == IF behind = {} THEN Len(seq) + 1
              ELSE CHOOSE j \in behind : \A j2 \in behind : j <= j2
    IN  SubSeq(seq, 1, at - 1) \o <<x>> \o SubSeq(seq, at, Len(seq))

\* No sort: the issues as collected.
sorted_Unsorted(seq) == seq

RECURSIVE sorted(_)
\* sorted(seq, key=lambda x: (x.role, x.file, x.line)): a stable sort,
\* items of equal key keep the order they have in seq.
sorted(seq) ==
    IF seq = <<>>
    THEN <<>>
    ELSE Insert(sorted(SubSeq(seq, 1, Len(seq) - 1)), seq[Len(seq)])

\* The two print calls of the report for one issue.
IssueLines(issue) ==
    << "  " \o RoleIcon(issue.role) \o " [" \o issue.role \o "] "
       \o issue.file \o ":" \o ToString(issue.line),
       "      " \o issue.message \o "\n" >>

\* What main prints for the collected issues, one item per print call.
Report(issues) ==
    IF issues # <<>>
    THEN <<"\n:x: Role Review Issues:\n">>
         \o FlatMap(sorted(issues), IssueLines)
         \o <<"Total: " \o ToString(Len(issues)) \o " issue(s)\n">>
    ELSE <<":white_check_mark: All role checks passed.">>

\* get_changed_files, from the stdout of git diff --name-only.
get_changed_files(stdout) ==
    LET names == SelectSeq(Split(Strip(stdout), "\n"),
                           LAMBDA f : EndsWith(f, ".py"))
    IN  [i \in 1..Len(names) |-> PathOf(names[i])]

(***************************************************************************)
(* The sources the parser is modelled on, each with the tree ast.parse     *)
(* builds from it; any other text is a SyntaxError.                        *)
(***************************************************************************)

\* Six lines: an import, and a function with an assert, two print calls
\* on one line, and a commented-out return that is also an unattributed
\* TODO.
Src_APP ==
    "import os\n"
    \o "def run(x):\n"
    \o "    assert x\n"
    \o "    print(x); print(x)\n"
    \o "    # TODO return x\n"
    \o "    return x\n"

Ast_APP == <<
    N("Module", 0, "", 0, 0, "", ""),
    N("Import", 1, "body", 1, 1, "", ""),
    N("alias", 2, "names", 1, 1, "os", ""),
    N("FunctionDef", 1, "body", 2, 6, "run", ""),
    N("arguments", 4, "args", 0, 0, "", ""),
    N("arg", 5, "args", 2, 2, "", ""),
    N("Assert", 4, "body", 3, 3, "", ""),
    N("Name", 7, "test", 3, 3, "", "x"),
    N("Load", 8, "ctx", 0, 0, "", ""),
    N("Expr", 4, "body", 4, 4, "", ""),
    N("Call", 10, "value", 4, 4, "", ""),
    N("Name", 11, "func", 4, 4, "", "print"),
    N("Load", 12, "ctx", 0, 0, "", ""),
    N("Name", 11, "args", 4, 4, "", "x"),
    N("Load", 14, "ctx", 0, 0, "", ""),
    N("Expr", 4, "body", 4, 4, "", ""),
    N("Call", 16, "value", 4, 4, "", ""),
    N("Name", 17, "func", 4, 4, "", "print"),
    N("Load", 18, "ctx", 0, 0, "", ""),
    N("Name", 17, "args", 4, 4, "", "x"),
    N("Load", 20, "ctx", 0, 0, "", ""),
    N("Return", 4, "body", 6, 6, "", ""),
    N("Name", 22, "value", 6, 6, "", "x"),
    N("Load", 23, "ctx", 0, 0, "", "")
>>

\* One line more than MAX_FILE_LINES: a function of 35 lines (a
\* docstring) with six parameters, a bare except, and blank lines.
Src_BIG ==
    "def f(a, b, c, d, e, g) -> None:\n"
    \o "    \"\"\"\n" \o Rep("\n", 32) \o "    \"\"\"\n"
    \o "try:\n    pass\nexcept:\n    pass\n"
    \o Rep("\n", MAX_FILE_LINES + 1 - 39)

Ast_BIG == <<
    N("Module", 0, "", 0, 0, "", ""),
    N("FunctionDef", 1, "body", 1, 35, "f", ""),
    N("arguments", 2, "args", 0, 0, "", ""),
    N("arg", 3, "args", 1, 1, "", ""),
    N("arg", 3, "args", 1, 1, "", ""),
    N("arg", 3, "args", 1, 1, "", ""),
    N("arg", 3, "args", 1, 1, "", ""),
    N("arg", 3, "args", 1, 1, "", ""),
    N("arg", 3, "args", 1, 1, "", ""),
    N("Expr", 2, "body", 2, 35, "", ""),
    N("Constant", 10, "value", 2, 35, "", ""),
    N("Constant", 2, "returns", 1, 1, "", ""),
    N("Try", 1, "body", 36, 39, "", ""),
    N("Pass", 13, "body", 37, 37, "", ""),
    N("ExceptHandler", 13, "handlers", 38, 39, "", ""),
    N("Pass", 15, "body", 39, 39, "", "")
>>

\* Exactly MAX_FILE_LINES blank lines.
Src_OK ==
    Rep("\n", MAX_FILE_LINES)

Ast_OK == <<
    N("Module", 0, "", 0, 0, "", "")
>>

\* Two lines that declare a router.
Src_API ==
    "from fastapi import APIRouter\n"
    \o "router = APIRouter()\n"

Ast_API == <<
    N("Module", 0, "", 0, 0, "", ""),
    N("ImportFrom", 1, "body", 1, 1, "", ""),
    N("alias", 2, "names", 1, 1, "APIRouter", ""),
    N("Assign", 1, "body", 2, 2, "", ""),
    N("Name", 4, "targets", 2, 2, "", "router"),
    N("Store", 5, "ctx", 0, 0, "", ""),
    N("Call", 4, "value", 2, 2, "", ""),
    N("Name", 7, "func", 2, 2, "", "APIRouter"),
    N("Load", 8, "ctx", 0, 0, "", "")
>>

\* A bare except, then a call of eval.
Src_EXC_EVAL ==
    "try:\n"
    \o "    pass\n"
    \o "except:\n"
    \o "    pass\n"
    \o "eval(\"1\")\n"

Ast_EXC_EVAL == <<
    N("Module", 0, "", 0, 0, "", ""),
    N("Try", 1, "body", 1, 4, "", ""),
    N("Pass", 2, "body", 2, 2, "", ""),
    N("ExceptHandler", 2, "handlers", 3, 4, "", ""),
    N("Pass", 4, "body", 4, 4, "", ""),
    N("Expr", 1, "body", 5, 5, "", ""),
    N("Call", 6, "value", 5, 5, "", ""),
    N("Name", 7, "func", 5, 5, "", "eval"),
    N("Load", 8, "ctx", 0, 0, "", ""),
    N("Constant", 7, "args", 5, 5, "", "")
>>

\* A call of exec, then a bare except.
Src_EXEC_EXC ==
    "exec(\"1\")\n"
    \o "try:\n"
    \o "    pass\n"
    \o "except:\n"
    \o "    pass\n"

Ast_EXEC_EXC == <<
    N("Module", 0, "", 0, 0, "", ""),
    N("Expr", 1, "body", 1, 1, "", ""),
    N("Call", 2, "value", 1, 1, "", ""),
    N("Name", 3, "func", 1, 1, "", "exec"),
    N("Load", 4, "ctx", 0, 0, "", ""),
    N("Constant", 3, "args", 1, 1, "", ""),
    N("Try", 1, "body", 2, 5, "", ""),
    N("Pass", 7, "body", 3, 3, "", ""),
    N("ExceptHandler", 7, "handlers", 4, 5, "", ""),
    N("Pass", 9, "body", 5, 5, "", "")
>>

\* A call of eval in the body of a bare except, in a function.
Src_EVAL_IN_EXC ==
    "def f() -> None:\n"
    \o "    try:\n"
    \o "        pass\n"
    \o "    except:\n"
    \o "        return eval(\"1\")\n"

Ast_EVAL_IN_EXC == <<
    N("Module", 0, "", 0, 0, "", ""),
    N("FunctionDef", 1, "body", 1, 5, "f", ""),
    N("arguments", 2, "args", 0, 0, "", ""),
    N("Try", 2, "body", 2, 5, "", ""),
    N("Pass", 4, "body", 3, 3, "", ""),
    N("ExceptHandler", 4, "handlers", 4, 5, "", ""),
    N("Return", 6, "body", 5, 5, "", ""),
    N("Call", 7, "value", 5, 5, "", ""),
    N("Name", 8, "func", 5, 5, "", "eval"),
    N("Load", 9, "ctx", 0, 0, "", ""),
    N("Constant", 8, "args", 5, 5, "", ""),
    N("Constant", 2, "returns", 1, 1, "", "")
>>

\* A call of exec, and a bare except in a nested function.
Src_EXC_IN_DEF ==
    "def f() -> None:\n"
    \o "    exec(\"1\")\n"
    \o "    def g() -> None:\n"
    \o "        try:\n"
    \o "            pass\n"
    \o "        except:\n"
    \o "            pass\n"

Ast_EXC_IN_DEF == <<
    N("Module", 0, "", 0, 0, "", ""),
    N("FunctionDef", 1, "body", 1, 7, "f", ""),
    N("arguments", 2, "args", 0, 0, "", ""),
    N("Expr", 2, "body", 2, 2, "", ""),
    N("Call", 4, "value", 2, 2, "", ""),
    N("Name", 5, "func", 2, 2, "", "exec"),
    N("Load", 6, "ctx", 0, 0, "", ""),
    N("Constant", 5, "args", 2, 2, "", ""),
    N("FunctionDef", 2, "body", 3, 7, "g", ""),
    N("arguments", 9, "args", 0, 0, "", ""),
    N("Try", 9, "body", 4, 7, "", ""),
    N("Pass", 11, "body", 5, 5, "", ""),
    N("ExceptHandler", 11, "handlers", 6, 7, "", ""),
    N("Pass", 13, "body", 7, 7, "", ""),
    N("Constant", 9, "returns", 3, 3, "", ""),
    N("Constant", 2, "returns", 1, 1, "", "")
>>

\* An except with a type, and eval called as an attribute.
Src_TYPED ==
    "import builtins\n"
    \o "try:\n"
    \o "    pass\n"
    \o "except ValueError:\n"
    \o "    builtins.eval(\"1\")\n"

Ast_TYPED == <<
    N("Module", 0, "", 0, 0, "", ""),
    N("Import", 1, "body", 1, 1, "", ""),
    N("alias", 2, "names", 1, 1, "builtins", ""),
    N("Try", 1, "body", 2, 5, "", ""),
    N("Pass", 4, "body", 3, 3, "", ""),
    N("ExceptHandler", 4, "handlers", 4, 5, "", ""),
    N("Name", 6, "type", 4, 4, "", "ValueError"),
    N("Load", 7, "ctx", 0, 0, "", ""),
    N("Expr", 6, "body", 5, 5, "", ""),
    N("Call", 9, "value", 5, 5, "", ""),
    N("Attribute", 10, "func", 5, 5, "", ""),
    N("Name", 11, "value", 5, 5, "", "builtins"),
    N("Load", 12, "ctx", 0, 0, "", ""),
    N("Load", 11, "ctx", 0, 0, "", ""),
    N("Constant", 10, "args", 5, 5, "", "")
>>

\* A bare except and two calls, of eval and of exec.
Src_TWO_EVAL ==
    "try:\n"
    \o "    eval(\"1\")\n"
    \o "except:\n"
    \o "    exec(\"1\")\n"

Ast_TWO_EVAL == <<
    N("Module", 0, "", 0, 0, "", ""),
    N("Try", 1, "body", 1, 4, "", ""),
    N("Expr", 2, "body", 2, 2, "", ""),
    N("Call", 3, "value", 2, 2, "", ""),
    N("Name", 4, "func", 2, 2, "", "eval"),
    N("Load", 5, "ctx", 0, 0, "", ""),
    N("Constant", 4, "args", 2, 2, "", ""),
    N("ExceptHandler", 2, "handlers", 3, 4, "", ""),
    N("Expr", 8, "body", 4, 4, "", ""),
    N("Call", 9, "value", 4, 4, "", ""),
    N("Name", 10, "func", 4, 4, "", "exec"),
    N("Load", 11, "ctx", 0, 0, "", ""),
    N("Constant", 10, "args", 4, 4, "", "")
>>

\* A function of 30 lines with 5 parameters.
Src_F30 ==
    "def f30(a, b, c, d, e) -> None:\n"
    \o "    \"\"\"\n"
    \o Rep("\n", 27)
    \o "    \"\"\"\n"

Ast_F30 == <<
    N("Module", 0, "", 0, 0, "", ""),
    N("FunctionDef", 1, "body", 1, 30, "f30", ""),
    N("arguments", 2, "args", 0, 0, "", ""),
    N("arg", 3, "args", 1, 1, "", ""),
    N("arg", 3, "args", 1, 1, "", ""),
    N("arg", 3, "args", 1, 1, "", ""),
    N("arg", 3, "args", 1, 1, "", ""),
    N("arg", 3, "args", 1, 1, "", ""),
    N("Expr", 2, "body", 2, 30, "", ""),
    N("Constant", 9, "value", 2, 30, "", ""),
    N("Constant", 2, "returns", 1, 1, "", "")
>>

\* A coroutine function of 31 lines with 6 parameters.
Src_F31 ==
    "async def f31(a, b, c, d, e, g) -> None:\n"
    \o "    \"\"\"\n"
    \o Rep("\n", 28)
    \o "    \"\"\"\n"

Ast_F31 == <<
    N("Module", 0, "", 0, 0, "", ""),
    N("AsyncFunctionDef", 1, "body", 1, 31, "f31", ""),
    N("arguments", 2, "args", 0, 0, "", ""),
    N("arg", 3, "args", 1, 1, "", ""),
    N("arg", 3, "args", 1, 1, "", ""),
    N("arg", 3, "args", 1, 1, "", ""),
    N("arg", 3, "args", 1, 1, "", ""),
    N("arg", 3, "args", 1, 1, "", ""),
    N("arg", 3, "args", 1, 1, "", ""),
    N("Expr", 2, "body", 2, 31, "", ""),
    N("Constant", 10, "value", 2, 31, "", ""),
    N("Constant", 2, "returns", 1, 1, "", "")
>>

\* A method of 31 lines with 5 parameters, and in it a function of 2 lines with 6.
Src_METHOD ==
    "class C:\n"
    \o "    def m(self, a, b, c, d) -> None:\n"
    \o "        def inner(a, b, c, d, e, g) -> None:\n"
    \o "            pass\n"
    \o "        \"\"\"\n"
    \o Rep("\n", 26)
    \o "        \"\"\"\n"

Ast_METHOD == <<
    N("Module", 0, "", 0, 0, "", ""),
    N("ClassDef", 1, "body", 1, 32, "C", ""),
    N("FunctionDef", 2, "body", 2, 32, "m", ""),
    N("arguments", 3, "args", 0, 0, "", ""),
    N("arg", 4, "args", 2, 2, "", ""),
    N("arg", 4, "args", 2, 2, "", ""),
    N("arg", 4, "args", 2, 2, "", ""),
    N("arg", 4, "args", 2, 2, "", ""),
    N("arg", 4, "args", 2, 2, "", ""),
    N("FunctionDef", 3, "body", 3, 4, "inner", ""),
    N("arguments", 10, "args", 0, 0, "", ""),
    N("arg", 11, "args", 3, 3, "", ""),
    N("arg", 11, "args", 3, 3, "", ""),
    N("arg", 11, "args", 3, 3, "", ""),
    N("arg", 11, "args", 3, 3, "", ""),
    N("arg", 11, "args", 3, 3, "", ""),
    N("arg", 11, "args", 3, 3, "", ""),
    N("Pass", 10, "body", 4, 4, "", ""),
    N("Constant", 10, "returns", 3, 3, "", ""),
    N("Expr", 3, "body", 5, 32, "", ""),
    N("Constant", 20, "value", 5, 32, "", ""),
    N("Constant", 3, "returns", 2, 2, "", "")
>>

\* A function with 6 positional parameters, 3 of them positional-only.
Src_POSONLY ==
    "def h(a, b, c, /, d, e, g) -> None:\n"
    \o "    pass\n"

Ast_POSONLY == <<
    N("Module", 0, "", 0, 0, "", ""),
    N("FunctionDef", 1, "body", 1, 2, "h", ""),
    N("arguments", 2, "args", 0, 0, "", ""),
    N("arg", 3, "posonlyargs", 1, 1, "", ""),
    N("arg", 3, "posonlyargs", 1, 1, "", ""),
    N("arg", 3, "posonlyargs", 1, 1, "", ""),
    N("arg", 3, "args", 1, 1, "", ""),
    N("arg", 3, "args", 1, 1, "", ""),
    N("arg", 3, "args", 1, 1, "", ""),
    N("Pass", 2, "body", 2, 2, "", ""),
    N("Constant", 2, "returns", 1, 1, "", "")
>>

\* A function with 5 positional parameters and 2 keyword-only ones.
Src_KWONLY ==
    "def kw(a, b, c, d, e, *, g, h) -> None:\n"
    \o "    pass\n"

Ast_KWONLY == <<
    N("Module", 0, "", 0, 0, "", ""),
    N("FunctionDef", 1, "body", 1, 2, "kw", ""),
    N("arguments", 2, "args", 0, 0, "", ""),
    N("arg", 3, "args", 1, 1, "", ""),
    N("arg", 3, "args", 1, 1, "", ""),
    N("arg", 3, "args", 1, 1, "", ""),
    N("arg", 3, "args", 1, 1, "", ""),
    N("arg", 3, "args", 1, 1, "", ""),
    N("arg", 3, "kwonlyargs", 1, 1, "", ""),
    N("arg", 3, "kwonlyargs", 1, 1, "", ""),
    N("Pass", 2, "body", 2, 2, "", ""),
    N("Constant", 2, "returns", 1, 1, "", "")
>>

\* Two classes, the second one in a function.
Src_CLS2 ==
    "class A: pass\n"
    \o "def f():\n"
    \o "    class B: pass\n"

Ast_CLS2 == <<
    N("Module", 0, "", 0, 0, "", ""),
    N("ClassDef", 1, "body", 1, 1, "A", ""),
    N("Pass", 2, "body", 1, 1, "", ""),
    N("FunctionDef", 1, "body", 2, 3, "f", ""),
    N("arguments", 4, "args", 0, 0, "", ""),
    N("ClassDef", 4, "body", 3, 3, "B", ""),
    N("Pass", 6, "body", 3, 3, "", "")
>>

\* Three classes, the third one in a method of the second.
Src_CLS3 ==
    "class A: pass\n"
    \o "class B:\n"
    \o "    def m(s):\n"
    \o "        class C: pass\n"

Ast_CLS3 == <<
    N("Module", 0, "", 0, 0, "", ""),
    N("ClassDef", 1, "body", 1, 1, "A", ""),
    N("Pass", 2, "body", 1, 1, "", ""),
    N("ClassDef", 1, "body", 2, 4, "B", ""),
    N("FunctionDef", 4, "body", 3, 4, "m", ""),
    N("arguments", 5, "args", 0, 0, "", ""),
    N("arg", 6, "args", 3, 3, "", ""),
    N("ClassDef", 5, "body", 4, 4, "C", ""),
    N("Pass", 8, "body", 4, 4, "", "")
>>

\* A class with 10 methods, one of them with a function in it.
Src_M10 ==
    "import os\n"
    \o "class K:\n"
    \o "    def m1(s): pass\n"
    \o "    def m2(s): pass\n"
    \o "    def m3(s): pass\n"
    \o "    def m4(s): pass\n"
    \o "    def m5(s): pass\n"
    \o "    def m6(s): pass\n"
    \o "    def m7(s): pass\n"
    \o "    def m8(s): pass\n"
    \o "    def m9(s): pass\n"
    \o "    async def m10(s):\n"
    \o "        def inner(): pass\n"

Ast_M10 == <<
    N("Module", 0, "", 0, 0, "", ""),
    N("Import", 1, "body", 1, 1, "", ""),
    N("alias", 2, "names", 1, 1, "os", ""),
    N("ClassDef", 1, "body", 2, 13, "K", ""),
    N("FunctionDef", 4, "body", 3, 3, "m1", ""),
    N("arguments", 5, "args", 0, 0, "", ""),
    N("arg", 6, "args", 3, 3, "", ""),
    N("Pass", 5, "body", 3, 3, "", ""),
    N("FunctionDef", 4, "body", 4, 4, "m2", ""),
    N("arguments", 9, "args", 0, 0, "", ""),
    N("arg", 10, "args", 4, 4, "", ""),
    N("Pass", 9, "body", 4, 4, "", ""),
    N("FunctionDef", 4, "body", 5, 5, "m3", ""),
    N("arguments", 13, "args", 0, 0, "", ""),
    N("arg", 14, "args", 5, 5, "", ""),
    N("Pass", 13, "body", 5, 5, "", ""),
    N("FunctionDef", 4, "body", 6, 6, "m4", ""),
    N("arguments", 17, "args", 0, 0, "", ""),
    N("arg", 18, "args", 6, 6, "", ""),
    N("Pass", 17, "body", 6, 6, "", ""),
    N("FunctionDef", 4, "body", 7, 7, "m5", ""),
    N("arguments", 21, "args", 0, 0, "", ""),
    N("arg", 22, "args", 7, 7, "", ""),
    N("Pass", 21, "body", 7, 7, "", ""),
    N("FunctionDef", 4, "body", 8, 8, "m6", ""),
    N("arguments", 25, "args", 0, 0, "", ""),
    N("arg", 26, "args", 8, 8, "", ""),
    N("Pass", 25, "body", 8, 8, "", ""),
    N("FunctionDef", 4, "body", 9, 9, "m7", ""),
    N("arguments", 29, "args", 0, 0, "", ""),
    N("arg", 30, "args", 9, 9, "", ""),
    N("Pass", 29, "body", 9, 9, "", ""),
    N("FunctionDef", 4, "body", 10, 10, "m8", ""),
    N("arguments", 33, "args", 0, 0, "", ""),
    N("arg", 34, "args", 10, 10, "", ""),
    N("Pass", 33, "body", 10, 10, "", ""),
    N("FunctionDef", 4, "body", 11, 11, "m9", ""),
    N("arguments", 37, "args", 0, 0, "", ""),
    N("arg", 38, "args", 11, 11, "", ""),
    N("Pass", 37, "body", 11, 11, "", ""),
    N("AsyncFunctionDef", 4, "body", 12, 13, "m10", ""),
    N("arguments", 41, "args", 0, 0, "", ""),
    N("arg", 42, "args", 12, 12, "", ""),
    N("FunctionDef", 41, "body", 13, 13, "inner", ""),
    N("arguments", 44, "args", 0, 0, "", ""),
    N("Pass", 44, "body", 13, 13, "", "")
>>

\* A class with 11 methods, one a coroutine function, and in it a class with 10.
Src_M11 ==
    "import os\n"
    \o "class K:\n"
    \o "    def m1(s): pass\n"
    \o "    def m2(s): pass\n"
    \o "    def m3(s): pass\n"
    \o "    def m4(s): pass\n"
    \o "    def m5(s): pass\n"
    \o "    def m6(s): pass\n"
    \o "    def m7(s): pass\n"
    \o "    def m8(s): pass\n"
    \o "    def m9(s): pass\n"
    \o "    def m10(s): pass\n"
    \o "    async def m11(s): pass\n"
    \o "    class In:\n"
    \o "        def m1(s): pass\n"
    \o "        def m2(s): pass\n"
    \o "        def m3(s): pass\n"
    \o "        def m4(s): pass\n"
    \o "        def m5(s): pass\n"
    \o "        def m6(s): pass\n"
    \o "        def m7(s): pass\n"
    \o "        def m8(s): pass\n"
    \o "        def m9(s): pass\n"
    \o "        def m10(s): pass\n"

Ast_M11 == <<
    N("Module", 0, "", 0, 0, "", ""),
    N("Import", 1, "body", 1, 1, "", ""),
    N("alias", 2, "names", 1, 1, "os", ""),
    N("ClassDef", 1, "body", 2, 24, "K", ""),
    N("FunctionDef", 4, "body", 3, 3, "m1", ""),
    N("arguments", 5, "args", 0, 0, "", ""),
    N("arg", 6, "args", 3, 3, "", ""),
    N("Pass", 5, "body", 3, 3, "", ""),
    N("FunctionDef", 4, "body", 4, 4, "m2", ""),
    N("arguments", 9, "args", 0, 0, "", ""),
    N("arg", 10, "args", 4, 4, "", ""),
    N("Pass", 9, "body", 4, 4, "", ""),
    N("FunctionDef", 4, "body", 5, 5, "m3", ""),
    N("arguments", 13, "args", 0, 0, "", ""),
    N("arg", 14, "args", 5, 5, "", ""),
    N("Pass", 13, "body", 5, 5, "", ""),
    N("FunctionDef", 4, "body", 6, 6, "m4", ""),
    N("arguments", 17, "args", 0, 0, "", ""),
    N("arg", 18, "args", 6, 6, "", ""),
    N("Pass", 17, "body", 6, 6, "", ""),
    N("FunctionDef", 4, "body", 7, 7, "m5", ""),
    N("arguments", 21, "args", 0, 0, "", ""),
    N("arg", 22, "args", 7, 7, "", ""),
    N("Pass", 21, "body", 7, 7, "", ""),
    N("FunctionDef", 4, "body", 8, 8, "m6", ""),
    N("arguments", 25, "args", 0, 0, "", ""),
    N("arg", 26, "args", 8, 8, "", ""),
    N("Pass", 25, "body", 8, 8, "", ""),
    N("FunctionDef", 4, "body", 9, 9, "m7", ""),
    N("arguments", 29, "args", 0, 0, "", ""),
    N("arg", 30, "args", 9, 9, "", ""),
    N("Pass", 29, "body", 9, 9, "", ""),
    N("FunctionDef", 4, "body", 10, 10, "m8", ""),
    N("arguments", 33, "args", 0, 0, "", ""),
    N("arg", 34, "args", 10, 10, "", ""),
    N("Pass", 33, "body", 10, 10, "", ""),
    N("FunctionDef", 4, "body", 11, 11, "m9", ""),
    N("arguments", 37, "args", 0, 0, "", ""),
    N("arg", 38, "args", 11, 11, "", ""),
    N("Pass", 37, "body", 11, 11, "", ""),
    N("FunctionDef", 4, "body", 12, 12, "m10", ""),
    N("arguments", 41, "args", 0, 0, "", ""),
    N("arg", 42, "args", 12, 12, "", ""),
    N("Pass", 41, "body", 12, 12, "", ""),
    N("AsyncFunctionDef", 4, "body", 13, 13, "m11", ""),
    N("arguments", 45, "args", 0, 0, "", ""),
    N("arg", 46, "args", 13, 13, "", ""),
    N("Pass", 45, "body", 13, 13, "", ""),
    N("ClassDef", 4, "body", 14, 24, "In", ""),
    N("FunctionDef", 49, "body", 15, 15, "m1", ""),
    N("arguments", 50, "args", 0, 0, "", ""),
    N("arg", 51, "args", 15, 15, "", ""),
    N("Pass", 50, "body", 15, 15, "", ""),
    N("FunctionDef", 49, "body", 16, 16, "m2", ""),
    N("arguments", 54, "args", 0, 0, "", ""),
    N("arg", 55, "args", 16, 16, "", ""),
    N("Pass", 54, "body", 16, 16, "", ""),
    N("FunctionDef", 49, "body", 17, 17, "m3", ""),
    N("arguments", 58, "args", 0, 0, "", ""),
    N("arg", 59, "args", 17, 17, "", ""),
    N("Pass", 58, "body", 17, 17, "", ""),
    N("FunctionDef", 49, "body", 18, 18, "m4", ""),
    N("arguments", 62, "args", 0, 0, "", ""),
    N("arg", 63, "args", 18, 18, "", ""),
    N("Pass", 62, "body", 18, 18, "", ""),
    N("FunctionDef", 49, "body", 19, 19, "m5", ""),
    N("arguments", 66, "args", 0, 0, "", ""),
    N("arg", 67, "args", 19, 19, "", ""),
    N("Pass", 66, "body", 19, 19, "", ""),
    N("FunctionDef", 49, "body", 20, 20, "m6", ""),
    N("arguments", 70, "args", 0, 0, "", ""),
    N("arg", 71, "args", 20, 20, "", ""),
    N("Pass", 70, "body", 20, 20, "", ""),
    N("FunctionDef", 49, "body", 21, 21, "m7", ""),
    N("arguments", 74, "args", 0, 0, "", ""),
    N("arg", 75, "args", 21, 21, "", ""),
    N("Pass", 74, "body", 21, 21, "", ""),
    N("FunctionDef", 49, "body", 22, 22, "m8", ""),
    N("arguments", 78, "args", 0, 0, "", ""),
    N("arg", 79, "args", 22, 22, "", ""),
    N("Pass", 78, "body", 22, 22, "", ""),
    N("FunctionDef", 49, "body", 23, 23, "m9", ""),
    N("arguments", 82, "args", 0, 0, "", ""),
    N("arg", 83, "args", 23, 23, "", ""),
    N("Pass", 82, "body", 23, 23, "", ""),
    N("FunctionDef", 49, "body", 24, 24, "m10", ""),
    N("arguments", 86, "args", 0, 0, "", ""),
    N("arg", 87, "args", 24, 24, "", ""),
    N("Pass", 86, "body", 24, 24, "", "")
>>

\* Two classes with 11 methods each.
Src_TWO11 ==
    "class P:\n"
    \o "    def m1(s): pass\n"
    \o "    def m2(s): pass\n"
    \o "    def m3(s): pass\n"
    \o "    def m4(s): pass\n"
    \o "    def m5(s): pass\n"
    \o "    def m6(s): pass\n"
    \o "    def m7(s): pass\n"
    \o "    def m8(s): pass\n"
    \o "    def m9(s): pass\n"
    \o "    def m10(s): pass\n"
    \o "    def m11(s): pass\n"
    \o "class Q:\n"
    \o "    def m1(s): pass\n"
    \o "    def m2(s): pass\n"
    \o "    def m3(s): pass\n"
    \o "    def m4(s): pass\n"
    \o "    def m5(s): pass\n"
    \o "    def m6(s): pass\n"
    \o "    def m7(s): pass\n"
    \o "    def m8(s): pass\n"
    \o "    def m9(s): pass\n"
    \o "    def m10(s): pass\n"
    \o "    def m11(s): pass\n"

Ast_TWO11 == <<
    N("Module", 0, "", 0, 0, "", ""),
    N("ClassDef", 1, "body", 1, 12, "P", ""),
    N("FunctionDef", 2, "body", 2, 2, "m1", ""),
    N("arguments", 3, "args", 0, 0, "", ""),
    N("arg", 4, "args", 2, 2, "", ""),
    N("Pass", 3, "body", 2, 2, "", ""),
    N("FunctionDef", 2, "body", 3, 3, "m2", ""),
    N("arguments", 7, "args", 0, 0, "", ""),
    N("arg", 8, "args", 3, 3, "", ""),
    N("Pass", 7, "body", 3, 3, "", ""),
    N("FunctionDef", 2, "body", 4, 4, "m3", ""),
    N("arguments", 11, "args", 0, 0, "", ""),
    N("arg", 12, "args", 4, 4, "", ""),
    N("Pass", 11, "body", 4, 4, "", ""),
    N("FunctionDef", 2, "body", 5, 5, "m4", ""),
    N("arguments", 15, "args", 0, 0, "", ""),
    N("arg", 16, "args", 5, 5, "", ""),
    N("Pass", 15, "body", 5, 5, "", ""),
    N("FunctionDef", 2, "body", 6, 6, "m5", ""),
    N("arguments", 19, "args", 0, 0, "", ""),
    N("arg", 20, "args", 6, 6, "", ""),
    N("Pass", 19, "body", 6, 6, "", ""),
    N("FunctionDef", 2, "body", 7, 7, "m6", ""),
    N("arguments", 23, "args", 0, 0, "", ""),
    N("arg", 24, "args", 7, 7, "", ""),
    N("Pass", 23, "body", 7, 7, "", ""),
    N("FunctionDef", 2, "body", 8, 8, "m7", ""),
    N("arguments", 27, "args", 0, 0, "", ""),
    N("arg", 28, "args", 8, 8, "", ""),
    N("Pass", 27, "body", 8, 8, "", ""),
    N("FunctionDef", 2, "body", 9, 9, "m8", ""),
    N("arguments", 31, "args", 0, 0, "", ""),
    N("arg", 32, "args", 9, 9, "", ""),
    N("Pass", 31, "body", 9, 9, "", ""),
    N("FunctionDef", 2, "body", 10, 10, "m9", ""),
    N("arguments", 35, "args", 0, 0, "", ""),
    N("arg", 36, "args", 10, 10, "", ""),
    N("Pass", 35, "body", 10, 10, "", ""),
    N("FunctionDef", 2, "body", 11, 11, "m10", ""),
    N("arguments", 39, "args", 0, 0, "", ""),
    N("arg", 40, "args", 11, 11, "", ""),
    N("Pass", 39, "body", 11, 11, "", ""),
    N("FunctionDef", 2, "body", 12, 12, "m11", ""),
    N("arguments", 43, "args", 0, 0, "", ""),
    N("arg", 44, "args", 12, 12, "", ""),
    N("Pass", 43, "body", 12, 12, "", ""),
    N("ClassDef", 1, "body", 13, 24, "Q", ""),
    N("FunctionDef", 47, "body", 14, 14, "m1", ""),
    N("arguments", 48, "args", 0, 0, "", ""),
    N("arg", 49, "args", 14, 14, "", ""),
    N("Pass", 48, "body", 14, 14, "", ""),
    N("FunctionDef", 47, "body", 15, 15, "m2", ""),
    N("arguments", 52, "args", 0, 0, "", ""),
    N("arg", 53, "args", 15, 15, "", ""),
    N("Pass", 52, "body", 15, 15, "", ""),
    N("FunctionDef", 47, "body", 16, 16, "m3", ""),
    N("arguments", 56, "args", 0, 0, "", ""),
    N("arg", 57, "args", 16, 16, "", ""),
    N("Pass", 56, "body", 16, 16, "", ""),
    N("FunctionDef", 47, "body", 17, 17, "m4", ""),
    N("arguments", 60, "args", 0, 0, "", ""),
    N("arg", 61, "args", 17, 17, "", ""),
    N("Pass", 60, "body", 17, 17, "", ""),
    N("FunctionDef", 47, "body", 18, 18, "m5", ""),
    N("arguments", 64, "args", 0, 0, "", ""),
    N("arg", 65, "args", 18, 18, "", ""),
    N("Pass", 64, "body", 18, 18, "", ""),
    N("FunctionDef", 47, "body", 19, 19, "m6", ""),
    N("arguments", 68, "args", 0, 0, "", ""),
    N("arg", 69, "args", 19, 19, "", ""),
    N("Pass", 68, "body", 19, 19, "", ""),
    N("FunctionDef", 47, "body", 20, 20, "m7", ""),
    N("arguments", 72, "args", 0, 0, "", ""),
    N("arg", 73, "args", 20, 20, "", ""),
    N("Pass", 72, "body", 20, 20, "", ""),
    N("FunctionDef", 47, "body", 21, 21, "m8", ""),
    N("arguments", 76, "args", 0, 0, "", ""),
    N("arg", 77, "args", 21, 21, "", ""),
    N("Pass", 76, "body", 21, 21, "", ""),
    N("FunctionDef", 47, "body", 22, 22, "m9", ""),
    N("arguments", 80, "args", 0, 0, "", ""),
    N("arg", 81, "args", 22, 22, "", ""),
    N("Pass", 80, "body", 22, 22, "", ""),
    N("FunctionDef", 47, "body", 23, 23, "m10", ""),
    N("arguments", 84, "args", 0, 0, "", ""),
    N("arg", 85, "args", 23, 23, "", ""),
    N("Pass", 84, "body", 23, 23, "", ""),
    N("FunctionDef", 47, "body", 24, 24, "m11", ""),
    N("arguments", 88, "args", 0, 0, "", ""),
    N("arg", 89, "args", 24, 24, "", ""),
    N("Pass", 88, "body", 24, 24, "", "")
>>

\* Fifteen import statements, one of them in a function.
Src_I15 ==
    "import m1\n"
    \o "import m2\n"
    \o "import m3\n"
    \o "import m4\n"
    \o "import m5\n"
    \o "import m6\n"
    \o "import m7\n"
    \o "import m8\n"
    \o "import m9\n"
    \o "import m10\n"
    \o "import m11\n"
    \o "import m12\n"
    \o "import m13\n"
    \o "from a import b, c\n"
    \o "def f():\n"
    \o "    import x, y\n"

Ast_I15 == <<
    N("Module", 0, "", 0, 0, "", ""),
    N("Import", 1, "body", 1, 1, "", ""),
    N("alias", 2, "names", 1, 1, "m1", ""),
    N("Import", 1, "body", 2, 2, "", ""),
    N("alias", 4, "names", 2, 2, "m2", ""),
    N("Import", 1, "body", 3, 3, "", ""),
    N("alias", 6, "names", 3, 3, "m3", ""),
    N("Import", 1, "body", 4, 4, "", ""),
    N("alias", 8, "names", 4, 4, "m4", ""),
    N("Import", 1, "body", 5, 5, "", ""),
    N("alias", 10, "names", 5, 5, "m5", ""),
    N("Import", 1, "body", 6, 6, "", ""),
    N("alias", 12, "names", 6, 6, "m6", ""),
    N("Import", 1, "body", 7, 7, "", ""),
    N("alias", 14, "names", 7, 7, "m7", ""),
    N("Import", 1, "body", 8, 8, "", ""),
    N("alias", 16, "names", 8, 8, "m8", ""),
    N("Import", 1, "body", 9, 9, "", ""),
    N("alias", 18, "names", 9, 9, "m9", ""),
    N("Import", 1, "body", 10, 10, "", ""),
    N("alias", 20, "names", 10, 10, "m10", ""),
    N("Import", 1, "body", 11, 11, "", ""),
    N("alias", 22, "names", 11, 11, "m11", ""),
    N("Import", 1, "body", 12, 12, "", ""),
    N("alias", 24, "names", 12, 12, "m12", ""),
    N("Import", 1, "body", 13, 13, "", ""),
    N("alias", 26, "names", 13, 13, "m13", ""),
    N("ImportFrom", 1, "body", 14, 14, "", ""),
    N("alias", 28, "names", 14, 14, "b", ""),
    N("alias", 28, "names", 14, 14, "c", ""),
    N("FunctionDef", 1, "body", 15, 16, "f", ""),
    N("arguments", 31, "args", 0, 0, "", ""),
    N("Import", 31, "body", 16, 16, "", ""),
    N("alias", 33, "names", 16, 16, "x", ""),
    N("alias", 33, "names", 16, 16, "y", "")
>>

\* Sixteen import statements, one of them in a function.
Src_I16 ==
    "import m1\n"
    \o "import m2\n"
    \o "import m3\n"
    \o "import m4\n"
    \o "import m5\n"
    \o "import m6\n"
    \o "import m7\n"
    \o "import m8\n"
    \o "import m9\n"
    \o "import m10\n"
    \o "import m11\n"
    \o "import m12\n"
    \o "import m13\n"
    \o "import m14\n"
    \o "from a import b\n"
    \o "def f():\n"
    \o "    import x\n"

Ast_I16 == <<
    N("Module", 0, "", 0, 0, "", ""),
    N("Import", 1, "body", 1, 1, "", ""),
    N("alias", 2, "names", 1, 1, "m1", ""),
    N("Import", 1, "body", 2, 2, "", ""),
    N("alias", 4, "names", 2, 2, "m2", ""),
    N("Import", 1, "body", 3, 3, "", ""),
    N("alias", 6, "names", 3, 3, "m3", ""),
    N("Import", 1, "body", 4, 4, "", ""),
    N("alias", 8, "names", 4, 4, "m4", ""),
    N("Import", 1, "body", 5, 5, "", ""),
    N("alias", 10, "names", 5, 5, "m5", ""),
    N("Import", 1, "body", 6, 6, "", ""),
    N("alias", 12, "names", 6, 6, "m6", ""),
    N("Import", 1, "body", 7, 7, "", ""),
    N("alias", 14, "names", 7, 7, "m7", ""),
    N("Import", 1, "body", 8, 8, "", ""),
    N("alias", 16, "names", 8, 8, "m8", ""),
    N("Import", 1, "body", 9, 9, "", ""),
    N("alias", 18, "names", 9, 9, "m9", ""),
    N("Import", 1, "body", 10, 10, "", ""),
    N("alias", 20, "names", 10, 10, "m10", ""),
    N("Import", 1, "body", 11, 11, "", ""),
    N("alias", 22, "names", 11, 11, "m11", ""),
    N("Import", 1, "body", 12, 12, "", ""),
    N("alias", 24, "names", 12, 12, "m12", ""),
    N("Import", 1, "body", 13, 13, "", ""),
    N("alias", 26, "names", 13, 13, "m13", ""),
    N("Import", 1, "body", 14, 14, "", ""),
    N("alias", 28, "names", 14, 14, "m14", ""),
    N("ImportFrom", 1, "body", 15, 15, "", ""),
    N("alias", 30, "names", 15, 15, "b", ""),
    N("FunctionDef", 1, "body", 16, 17, "f", ""),
    N("arguments", 32, "args", 0, 0, "", ""),
    N("Import", 32, "body", 17, 17, "", ""),
    N("alias", 34, "names", 17, 17, "x", "")
>>

\* Sixteen imports, and three classes, one with 11 methods.
Src_ALL3 ==
    "import m1\n"
    \o "import m2\n"
    \o "import m3\n"
    \o "import m4\n"
    \o "import m5\n"
    \o "import m6\n"
    \o "import m7\n"
    \o "import m8\n"
    \o "import m9\n"
    \o "import m10\n"
    \o "import m11\n"
    \o "import m12\n"
    \o "import m13\n"
    \o "import m14\n"
    \o "import m15\n"
    \o "import m16\n"
    \o "class A: pass\n"
    \o "class B: pass\n"
    \o "class K:\n"
    \o "    def m1(s): pass\n"
    \o "    def m2(s): pass\n"
    \o "    def m3(s): pass\n"
    \o "    def m4(s): pass\n"
    \o "    def m5(s): pass\n"
    \o "    def m6(s): pass\n"
    \o "    def m7(s): pass\n"
    \o "    def m8(s): pass\n"
    \o "    def m9(s): pass\n"
    \o "    def m10(s): pass\n"
    \o "    def m11(s): pass\n"

Ast_ALL3 == <<
    N("Module", 0, "", 0, 0, "", ""),
    N("Import", 1, "body", 1, 1, "", ""),
    N("alias", 2, "names", 1, 1, "m1", ""),
    N("Import", 1, "body", 2, 2, "", ""),
    N("alias", 4, "names", 2, 2, "m2", ""),
    N("Import", 1, "body", 3, 3, "", ""),
    N("alias", 6, "names", 3, 3, "m3", ""),
    N("Import", 1, "body", 4, 4, "", ""),
    N("alias", 8, "names", 4, 4, "m4", ""),
    N("Import", 1, "body", 5, 5, "", ""),
    N("alias", 10, "names", 5, 5, "m5", ""),
    N("Import", 1, "body", 6, 6, "", ""),
    N("alias", 12, "names", 6, 6, "m6", ""),
    N("Import", 1, "body", 7, 7, "", ""),
    N("alias", 14, "names", 7, 7, "m7", ""),
    N("Import", 1, "body", 8, 8, "", ""),
    N("alias", 16, "names", 8, 8, "m8", ""),
    N("Import", 1, "body", 9, 9, "", ""),
    N("alias", 18, "names", 9, 9, "m9", ""),
    N("Import", 1, "body", 10, 10, "", ""),
    N("alias", 20, "names", 10, 10, "m10", ""),
    N("Import", 1, "body", 11, 11, "", ""),
    N("alias", 22, "names", 11, 11, "m11", ""),
    N("Import", 1, "body", 12, 12, "", ""),
    N("alias", 24, "names", 12, 12, "m12", ""),
    N("Import", 1, "body", 13, 13, "", ""),
    N("alias", 26, "names", 13, 13, "m13", ""),
    N("Import", 1, "body", 14, 14, "", ""),
    N("alias", 28, "names", 14, 14, "m14", ""),
    N("Import", 1, "body", 15, 15, "", ""),
    N("alias", 30, "names", 15, 15, "m15", ""),
    N("Import", 1, "body", 16, 16, "", ""),
    N("alias", 32, "names", 16, 16, "m16", ""),
    N("ClassDef", 1, "body", 17, 17, "A", ""),
    N("Pass", 34, "body", 17, 17, "", ""),
    N("ClassDef", 1, "body", 18, 18, "B", ""),
    N("Pass", 36, "body", 18, 18, "", ""),
    N("ClassDef", 1, "body", 19, 30, "K", ""),
    N("FunctionDef", 38, "body", 20, 20, "m1", ""),
    N("arguments", 39, "args", 0, 0, "", ""),
    N("arg", 40, "args", 20, 20, "", ""),
    N("Pass", 39, "body", 20, 20, "", ""),
    N("FunctionDef", 38, "body", 21, 21, "m2", ""),
    N("arguments", 43, "args", 0, 0, "", ""),
    N("arg", 44, "args", 21, 21, "", ""),
    N("Pass", 43, "body", 21, 21, "", ""),
    N("FunctionDef", 38, "body", 22, 22, "m3", ""),
    N("arguments", 47, "args", 0, 0, "", ""),
    N("arg", 48, "args", 22, 22, "", ""),
    N("Pass", 47, "body", 22, 22, "", ""),
    N("FunctionDef", 38, "body", 23, 23, "m4", ""),
    N("arguments", 51, "args", 0, 0, "", ""),
    N("arg", 52, "args", 23, 23, "", ""),
    N("Pass", 51, "body", 23, 23, "", ""),
    N("FunctionDef", 38, "body", 24, 24, "m5", ""),
    N("arguments", 55, "args", 0, 0, "", ""),
    N("arg", 56, "args", 24, 24, "", ""),
    N("Pass", 55, "body", 24, 24, "", ""),
    N("FunctionDef", 38, "body", 25, 25, "m6", ""),
    N("arguments", 59, "args", 0, 0, "", ""),
    N("arg", 60, "args", 25, 25, "", ""),
    N("Pass", 59, "body", 25, 25, "", ""),
    N("FunctionDef", 38, "body", 26, 26, "m7", ""),
    N("arguments", 63, "args", 0, 0, "", ""),
    N("arg", 64, "args", 26, 26, "", ""),
    N("Pass", 63, "body", 26, 26, "", ""),
    N("FunctionDef", 38, "body", 27, 27, "m8", ""),
    N("arguments", 67, "args", 0, 0, "", ""),
    N("arg", 68, "args", 27, 27, "", ""),
    N("Pass", 67, "body", 27, 27, "", ""),
    N("FunctionDef", 38, "body", 28, 28, "m9", ""),
    N("arguments", 71, "args", 0, 0, "", ""),
    N("arg", 72, "args", 28, 28, "", ""),
    N("Pass", 71, "body", 28, 28, "", ""),
    N("FunctionDef", 38, "body", 29, 29, "m10", ""),
    N("arguments", 75, "args", 0, 0, "", ""),
    N("arg", 76, "args", 29, 29, "", ""),
    N("Pass", 75, "body", 29, 29, "", ""),
    N("FunctionDef", 38, "body", 30, 30, "m11", ""),
    N("arguments", 79, "args", 0, 0, "", ""),
    N("arg", 80, "args", 30, 30, "", ""),
    N("Pass", 79, "body", 30, 30, "", "")
>>

\* Not Python.
Src_BAD ==
    "def (:\n"

Grammar ==
    Src_APP :> Ast_APP @@ Src_BIG :> Ast_BIG @@ Src_OK :> Ast_OK
    @@ Src_API :> Ast_API
    @@ Src_EXC_EVAL :> Ast_EXC_EVAL @@ Src_EXEC_EXC :> Ast_EXEC_EXC
    @@ Src_EVAL_IN_EXC :> Ast_EVAL_IN_EXC @@ Src_EXC_IN_DEF :> Ast_EXC_IN_DEF
    @@ Src_TYPED :> Ast_TYPED @@ Src_TWO_EVAL :> Ast_TWO_EVAL
    @@ Src_F30 :> Ast_F30 @@ Src_F31 :> Ast_F31 @@ Src_METHOD :> Ast_METHOD
    @@ Src_POSONLY :> Ast_POSONLY @@ Src_KWONLY :> Ast_KWONLY
    @@ Src_CLS2 :> Ast_CLS2 @@ Src_CLS3 :> Ast_CLS3
    @@ Src_M10 :> Ast_M10 @@ Src_M11 :> Ast_M11 @@ Src_TWO11 :> Ast_TWO11
    @@ Src_I15 :> Ast_I15 @@ Src_I16 :> Ast_I16 @@ Src_ALL3 :> Ast_ALL3

\* A parser that takes any text, as an empty module where it is no Python.
ast_parse_Lenient(content) ==
    [ok |-> TRUE,
     tree |-> IF content \in DOMAIN Grammar
              THEN Grammar[content]
              ELSE <<N("Module", 0, "", 0, 0, "", "")>>]

\* ast.parse(content): the tree, or ok = FALSE for a SyntaxError.
ast_parse(content) ==
    IF content \in DOMAIN Grammar
    THEN [ok |-> TRUE, tree |-> Grammar[content]]
    ELSE [ok |-> FALSE, tree |-> <<>>]

\* A file on disk with the given text, and one whose bytes are not UTF-8.
TextFile(text) == [utf8 |-> TRUE, text |-> text]
BinaryFile == [utf8 |-> FALSE, text |-> ""]

\* The working tree the run starts in.
InitDisk ==
    "app.py" :> TextFile(Src_APP)
    @@ "test_app.py" :> TextFile(Src_APP)
    @@ "tests/helpers.py" :> TextFile(Src_APP)
    @@ "pkg/tests/x.py" :> TextFile(Src_APP)
    @@ "big.py" :> TextFile(Src_BIG)
    @@ "ok.py" :> TextFile(Src_OK)
    @@ "bad.py" :> TextFile(Src_BAD)
    @@ "bin.py" :> BinaryFile
    @@ "packages/svc/api.py" :> TextFile(Src_API)
    @@ "packages/svc/pyproject.toml" :> TextFile("")
    @@ "README.md" :> TextFile("")

\* The names git diff may list: files of the working tree, and gone.py,
\* staged and then deleted.
GitNames ==
    {"app.py", "big.py", "ok.py", "bad.py", "bin.py", "packages/svc/api.py",
     "README.md", "gone.py"}

\* The longest list of names git diff prints in the model.
MaxFiles == 3

\* The lists of up to n of the given names, none twice.
ListsOf(names, n) ==
    UNION {{s \in [1..m -> names] : \A i, j \in 1..m : s[i] = s[j] => i = j}
           : m \in 0..n}

\* The lists git diff may print.
NameLists == ListsOf(GitNames, MaxFiles)

\* The stdout of git diff --name-only for a list of names.
GitStdout(names) == Join([i \in 1..Len(names) |-> names[i] \o "\n"], "")

(***************************************************************************)
(* main's position and locals.                                             *)
(***************************************************************************)

VARIABLES
    registry,    \* the ROLES dict: its (role, checker) items in order
    pc,          \* where main is: start, for, checks, done, raised
    files,       \* main's list of changed files
    idx,         \* the position in files of the for loop
    k,           \* the position in the registry of the next checker
    tree,        \* the tree of the file being checked
    lines,       \* the raw lines of the file being checked
    all_issues,  \* the issues collected so far
    out,         \* what print has written, one item per call
    ret,         \* main's return value, -1 while it has none
    printed,     \* history: the issues in the order the report prints them
    calls,       \* history: the checker invocations made, in order
    reads,       \* history: str(path) of every read_text, in order
    runs,        \* history: how many times main has been started
    epoch        \* history: how many times the disk has been changed

\* An APIClient instance and the calls made on it.
VARIABLES
    _client,     \* self._client: None, or an httpx.AsyncClient, open or closed
    inside,      \* history: an __aenter__ was not yet followed by an __aexit__
    gets,        \* history: the get calls and how each ended, in order
    ops          \* history: the methods called, in order

main_vars ==
    <<disk, registry, pc, files, idx, k, tree, lines, all_issues, out, ret,
      printed, calls, reads, runs, epoch>>

client_vars == <<_client, inside, gets, ops>>

vars == <<main_vars, client_vars>>

\* APIClient.__init__: self._client = None, and nothing called yet.
NoClient ==
    /\ _client = "None"
    /\ inside = FALSE
    /\ gets = <<>>
    /\ ops = <<>>

(***************************************************************************)
(* main                                                                    *)
(***************************************************************************)

Init ==
    /\ disk = InitDisk
    /\ registry = ROLES
    /\ pc = "start"
    /\ files = <<>>
    /\ idx = 0
    /\ k = 0
    /\ tree = <<>>
    /\ lines = <<>>
    /\ all_issues = <<>>
    /\ out = <<>>
    /\ ret = -1
    /\ printed = <<>>
    /\ calls = <<>>
    /\ reads = <<>>
    /\ runs = 0
    /\ epoch = 0
    /\ NoClient

\* No early return.
NoFiles_Never(changed) == FALSE

\* if not files
NoFiles(changed) == changed = <<>>

\* A verdict that the issues do not change.
Verdict_AlwaysZero(issues) == 0

\* The verdict behind the loop: 1 with issues, 0 without.
Verdict(issues) == IF issues # <<>> THEN 1 ELSE 0

\* files = get_changed_files(); if not files: return 0; all_issues = []
\* for git diff printing one of the lists of names.
StartOn(lists) ==
    /\ pc = "start"
    /\ \E names \in lists :
           files' = get_changed_files(GitStdout(names))
    /\ IF NoFiles(files')
       THEN pc' = "done" /\ ret' = 0 /\ idx' = idx
       ELSE pc' = "for" /\ ret' = ret /\ idx' = 1
    /\ all_issues' = <<>>
    /\ runs' = runs + 1
    /\ UNCHANGED <<disk, registry, k, tree, lines, out, printed, calls, reads,
                   epoch>>
    /\ UNCHANGED client_vars

Start == StartOn(NameLists)

\* The for loop is at a file.
AtFile == pc = "for" /\ idx <= Len(files)

\* if not file.exists(): continue
Skip ==
    /\ AtFile
    /\ ~exists(files[idx])
    /\ idx' = idx + 1
    /\ UNCHANGED <<disk, registry, pc, files, k, tree, lines, all_issues, out,
                   ret, printed, calls, reads, runs, epoch>>
    /\ UNCHANGED client_vars

\* content = file.read_text(encoding="utf-8") raises: nothing catches it.
ReadFail ==
    /\ AtFile
    /\ exists(files[idx])
    /\ read_text_raises(files[idx]) # ""
    /\ pc' = "raised"
    /\ reads' = Append(reads, Str(files[idx]))
    /\ UNCHANGED <<disk, registry, files, idx, k, tree, lines, all_issues, out,
                   ret, printed, calls, runs, epoch>>
    /\ UNCHANGED client_vars

\* lines = content.splitlines(); ast.parse(content) raises SyntaxError:
\* continue
ParseFail ==
    /\ AtFile
    /\ exists(files[idx])
    /\ read_text_raises(files[idx]) = ""
    /\ ~ast_parse(read_text(files[idx])).ok
    /\ lines' = splitlines(read_text(files[idx]))
    /\ idx' = idx + 1
    /\ reads' = Append(reads, Str(files[idx]))
    /\ UNCHANGED <<disk, registry, pc, files, k, tree, all_issues, out, ret,
                   printed, calls, runs, epoch>>
    /\ UNCHANGED client_vars

\* lines = content.splitlines(); tree = ast.parse(content)
Load ==
    /\ AtFile
    /\ exists(files[idx])
    /\ read_text_raises(files[idx]) = ""
    /\ ast_parse(read_text(files[idx])).ok
    /\ lines' = splitlines(read_text(files[idx]))
    /\ tree' = ast_parse(read_text(files[idx])).tree
    /\ pc' = "checks"
    /\ k' = 1
    /\ reads' = Append(reads, Str(files[idx]))
    /\ UNCHANGED <<disk, registry, files, idx, all_issues, out, ret, printed,
                   calls, runs, epoch>>
    /\ UNCHANGED client_vars

\* One turn of: for check_func in ROLES.values():
\*                  all_issues.extend(check_func(file, tree, lines))
\* and, behind the last checker, on to the next file.
Check ==
    /\ pc = "checks"
    /\ LET role == registry[k][1]
           check_func == registry[k][2]
           file == files[idx]
       IN  /\ reads' = reads \o ApplyReads(check_func, file)
           /\ IF ApplyRaises(check_func, file) # ""
              THEN /\ pc' = "raised"
                   /\ UNCHANGED <<idx, k, all_issues, calls>>
              ELSE /\ all_issues' =
                          all_issues \o Apply(check_func, file, tree, lines)
                   /\ calls' = Append(calls,
                          [role |-> role, check_func |-> check_func,
                           file |-> file, tree |-> tree, lines |-> lines,
                           result |-> Apply(check_func, file, tree, lines),
                           run |-> runs, epoch |-> epoch])
                   /\ IF k < Len(registry)
                      THEN k' = k + 1 /\ UNCHANGED <<pc, idx>>
                      ELSE k' = k /\ pc' = "for" /\ idx' = idx + 1
    /\ UNCHANGED <<disk, registry, files, tree, lines, out, ret, printed,
                   runs, epoch>>
    /\ UNCHANGED client_vars

\* Behind the loop: the report and the verdict.
Finish ==
    /\ pc = "for"
    /\ idx > Len(files)
    /\ out' = out \o Report(all_issues)
    /\ printed' = sorted(all_issues)
    /\ ret' = Verdict(all_issues)
    /\ pc' = "done"
    /\ UNCHANGED <<disk, registry, files, idx, k, tree, lines, all_issues,
                   calls, reads, runs, epoch>>
    /\ UNCHANGED client_vars

Next == Start \/ Skip \/ ReadFail \/ ParseFail \/ Load \/ Check \/ Finish

Spec == Init /\ [][Next]_vars

(***************************************************************************)
(* The checkers on their own: main's loop over the registry entered with   *)
(* a path, a tree and raw lines drawn from the sets below.                 *)
(***************************************************************************)

\* The paths the checkers are given.
UnitNames ==
    {"app.py", "test_app.py", "tests/helpers.py", "pkg/tests/x.py",
     "packages/svc/api.py"}

\* The trees the checkers are given.
UnitTrees == {Ast_OK, Ast_APP, Ast_BIG}

\* How far around MAX_FILE_LINES the numbers of raw lines go.
LineSlack == 1

\* The numbers of raw lines the checkers are given.
UnitLengths ==
    {0, 1} \cup (MAX_FILE_LINES - LineSlack)..(MAX_FILE_LINES + LineSlack)

\* The text every raw line has.
UnitLineTexts == {"", "x = 1"}

InitUnit ==
    /\ disk = InitDisk
    /\ registry = ROLES
    /\ pc = "checks"
    /\ \E name \in UnitNames : files = <<PathOf(name)>>
    /\ idx = 1
    /\ k = 1
    /\ tree \in UnitTrees
    /\ \E n \in UnitLengths, text \in UnitLineTexts :
           lines = [i \in 1..n |-> text]
    /\ all_issues = <<>>
    /\ out = <<>>
    /\ ret = -1
    /\ printed = <<>>
    /\ calls = <<>>
    /\ reads = <<>>
    /\ runs = 1
    /\ epoch = 0
    /\ NoClient

NextUnit == Check \/ Finish

SpecUnit == InitUnit /\ [][NextUnit]_vars

(***************************************************************************)
(* main with the ROLES dict in any order: what a registry built in         *)
(* another order would run.                                                *)
(***************************************************************************)

\* The orders the items of ROLES can be in.
RoleOrders ==
    {[i \in 1..Len(ROLES) |-> ROLES[p[i]]] : p \in Permutations(1..Len(ROLES))}

\* The names git diff may list in these runs.
PermNames ==
    {"app.py", "tests/helpers.py", "bad.py", "gone.py", "bin.py"}

\* The longest list of names git diff prints in these runs.
MaxPermFiles == 2

InitPerm ==
    /\ disk = InitDisk
    /\ registry \in RoleOrders
    /\ pc = "start"
    /\ files = <<>>
    /\ idx = 0
    /\ k = 0
    /\ tree = <<>>
    /\ lines = <<>>
    /\ all_issues = <<>>
    /\ out = <<>>
    /\ ret = -1
    /\ printed = <<>>
    /\ calls = <<>>
    /\ reads = <<>>
    /\ runs = 0
    /\ epoch = 0
    /\ NoClient

StartPerm == StartOn(ListsOf(PermNames, MaxPermFiles))

NextPerm ==
    StartPerm \/ Skip \/ ReadFail \/ ParseFail \/ Load \/ Check \/ Finish

SpecPerm == InitPerm /\ [][NextPerm]_vars

(***************************************************************************)
(* The hook run again and again on one list of changed files, with the     *)
(* working tree changed by other processes during and between the runs.    *)
(***************************************************************************)

\* The names git diff may list in these runs.
EnvNames == {"app.py", "packages/svc/api.py"}

\* The files another process may write meanwhile: an OpenAPI file
\* for the package, and the API module as text that is no Python or as
\* bytes that are no UTF-8.
EnvWrites ==
    {<<"packages/svc/openapi.yaml", TextFile("")>>,
     <<"packages/svc/api.py", TextFile(Src_BAD)>>,
     <<"packages/svc/api.py", BinaryFile>>}

\* The files another process may delete meanwhile.
EnvUnlinks == {"packages/svc/api.py"}

\* The most runs of the hook.
MaxRuns == 2

\* The most changes of the working tree by other processes.
MaxFsChanges == 1

StartEnv == StartOn(ListsOf(EnvNames, Cardinality(EnvNames)))

\* Between two runs: main has returned or raised.
Idle == pc \in {"done", "raised"}

\* Another process writes a file.
FsWrite ==
    /\ pc # "start"
    /\ epoch < MaxFsChanges
    /\ \E w \in EnvWrites :
           /\ IF w[1] \in DOMAIN disk THEN disk[w[1]] # w[2] ELSE TRUE
           /\ disk' = [p \in DOMAIN disk \cup {w[1]} |->
                          IF p = w[1] THEN w[2] ELSE disk[p]]
    /\ epoch' = epoch + 1
    /\ UNCHANGED <<registry, pc, files, idx, k, tree, lines, all_issues, out,
                   ret, printed, calls, reads, runs>>
    /\ UNCHANGED client_vars

\* Another process deletes a file.
FsUnlink ==
    /\ pc # "start"
    /\ epoch < MaxFsChanges
    /\ \E p \in EnvUnlinks \cap DOMAIN disk :
           disk' = [q \in DOMAIN disk \ {p} |-> disk[q]]
    /\ epoch' = epoch + 1
    /\ UNCHANGED <<registry, pc, files, idx, k, tree, lines, all_issues, out,
                   ret, printed, calls, reads, runs>>
    /\ UNCHANGED client_vars

\* The hook runs main again; git diff prints the list it printed before.
Again ==
    /\ Idle
    /\ runs < MaxRuns
    /\ IF NoFiles(files)
       THEN pc' = "done" /\ ret' = 0 /\ idx' = idx
       ELSE pc' = "for" /\ ret' = -1 /\ idx' = 1
    /\ all_issues' = <<>>
    /\ out' = <<>>
    /\ printed' = <<>>
    /\ runs' = runs + 1
    /\ UNCHANGED <<disk, registry, files, k, tree, lines, calls, reads, epoch>>
    /\ UNCHANGED client_vars

NextEnv ==
    \/ StartEnv \/ Skip \/ ReadFail \/ ParseFail \/ Load \/ Check \/ Finish
    \/ Again \/ FsWrite \/ FsUnlink

SpecEnv == Init /\ [][NextEnv]_vars

(***************************************************************************)
(* The checkers given raw lines of their own: main's loop over the         *)
(* registry entered with a file whose lines are drawn from sample texts.   *)
(***************************************************************************)

\* The texts a raw line may have.
RuleLineTexts ==
    {"",
     "x = 1",
     "TOKEN = \"abc123\"",
     "TOKEN = os.getenv(\"TOKEN\")",
     "secret_token = 'x'",
     "password = os.environ['P']",
     "token",
     "# TODO fix",
     "# TODO(bob): fix",
     "# TODO(bob): a; TODO b"}

\* The most raw lines of a file in these runs.
MaxRuleLines == 2

InitLines ==
    /\ disk = InitDisk
    /\ registry = ROLES
    /\ pc = "checks"
    /\ files = <<PathOf("app.py")>>
    /\ idx = 1
    /\ k = 1
    /\ tree = Ast_OK
    /\ \E n \in 1..MaxRuleLines : lines \in [1..n -> RuleLineTexts]
    /\ all_issues = <<>>
    /\ out = <<>>
    /\ ret = -1
    /\ printed = <<>>
    /\ calls = <<>>
    /\ reads = <<>>
    /\ runs = 1
    /\ epoch = 0
    /\ NoClient

NextLines == Check \/ Finish

SpecLines == InitLines /\ [][NextLines]_vars

(***************************************************************************)
(* The checkers given trees of their own: main's loop over the registry    *)
(* entered with the lines and the tree of a sample source.                 *)
(***************************************************************************)

\* The sources whose lines and trees the checkers are given.
TreeSources ==
    {Src_APP, Src_EXC_EVAL, Src_EXEC_EXC, Src_EVAL_IN_EXC, Src_EXC_IN_DEF,
     Src_TYPED, Src_TWO_EVAL, Src_F30, Src_F31, Src_METHOD, Src_POSONLY,
     Src_KWONLY}

\* A tree as built without end positions: end_lineno is None on every node.
NoEnd(ast) == [i \in 1..Len(ast) |-> [ast[i] EXCEPT !.end_lineno = 0]]

InitTrees ==
    /\ disk = InitDisk
    /\ registry = ROLES
    /\ pc = "checks"
    /\ \E name \in {"app.py", "tests/helpers.py"} : files = <<PathOf(name)>>
    /\ idx = 1
    /\ k = 1
    /\ \E src \in TreeSources :
           /\ lines = splitlines(src)
           /\ tree \in {ast_parse(src).tree, NoEnd(ast_parse(src).tree)}
    /\ all_issues = <<>>
    /\ out = <<>>
    /\ ret = -1
    /\ printed = <<>>
    /\ calls = <<>>
    /\ reads = <<>>
    /\ runs = 1
    /\ epoch = 0
    /\ NoClient

NextTrees == Check \/ Finish

SpecTrees == InitTrees /\ [][NextTrees]_vars

(***************************************************************************)
(* The count limits of check_architect: main's loop over the registry      *)
(* entered with a file at, one over and below each limit.                  *)
(***************************************************************************)

\* Sources at and over the limits on classes, methods and imports.
CountSources ==
    {Src_APP, Src_CLS2, Src_CLS3, Src_M10, Src_M11, Src_TWO11, Src_I15,
     Src_I16, Src_ALL3}

InitCounts ==
    /\ disk = InitDisk
    /\ registry = ROLES
    /\ pc = "checks"
    /\ \E name \in {"app.py", "tests/helpers.py"} : files = <<PathOf(name)>>
    /\ idx = 1
    /\ k = 1
    /\ \E src \in CountSources :
           /\ lines = splitlines(src)
           /\ tree \in {ast_parse(src).tree, NoEnd(ast_parse(src).tree)}
    /\ all_issues = <<>>
    /\ out = <<>>
    /\ ret = -1
    /\ printed = <<>>
    /\ calls = <<>>
    /\ reads = <<>>
    /\ runs = 1
    /\ epoch = 0
    /\ NoClient

NextCounts == Check \/ Finish

SpecCounts == InitCounts /\ [][NextCounts]_vars

(***************************************************************************)
(* check_architect's look at the file system: main's loop over the         *)
(* registry entered with a file in a working tree of its own.              *)
(***************************************************************************)

\* The files the checkers are given, relative and absolute.
ArchNames ==
    {"api.py", "packages/api.py", "packages/svc/api.py",
     "packages/svc/src/api.py", "/srv/svc/api.py"}

\* The files check_architect looks for in a directory.
ArchMarkers == {"pyproject.toml", "openapi.yaml", "openapi.json", "openapi.yml"}

\* The directories above a file, nearest first, up to the top of the path.
AncestorDirs(file) ==
    [j \in 1..Len(file.parts) |->
        [file EXCEPT !.parts = SubSeq(file.parts, 1, Len(file.parts) - j)]]

\* The most marker files in the working tree.
MaxArchFiles == 2

\* The working trees with the file, as the given text, and some marker
\* files in the directories above it.
ArchDisks(file, text) ==
    LET dirs == AncestorDirs(file)
        candidates ==
            {Str(Div(dirs[j], m)) : j \in 1..Len(dirs), m \in ArchMarkers}
    IN  {[p \in {Str(file)} \cup extras |->
             IF p = Str(file) THEN TextFile(text) ELSE TextFile("")]
         : extras \in {e \in SUBSET candidates : Cardinality(e) <= MaxArchFiles}}

InitArch ==
    /\ registry = ROLES
    /\ pc = "checks"
    /\ \E name \in ArchNames, text \in {Src_API, Src_APP} :
           /\ files = <<PathOf(name)>>
           /\ disk \in ArchDisks(PathOf(name), text)
           /\ lines = splitlines(text)
           /\ tree = ast_parse(text).tree
    /\ idx = 1
    /\ k = 1
    /\ all_issues = <<>>
    /\ out = <<>>
    /\ ret = -1
    /\ printed = <<>>
    /\ calls = <<>>
    /\ reads = <<>>
    /\ runs = 1
    /\ epoch = 0
    /\ NoClient

NextArch == Check \/ Finish

SpecArch == InitArch /\ [][NextArch]_vars

(***************************************************************************)
(* Runs to their end: main from its start, or its loop over the registry   *)
(* entered with a file, relative or absolute, in a working tree of its     *)
(* own.                                                                    *)
(***************************************************************************)

InitRuns == Init \/ InitArch

SpecRuns == InitRuns /\ [][Next]_vars

(***************************************************************************)
(* APIClient: __aenter__, __aexit__ and get called on one instance in any  *)
(* order.                                                                  *)
(***************************************************************************)

\* The most calls made on the instance.
MaxOps == 4

\* How a request sent by an open httpx client may end in get: the parsed
\* response is returned, or raise_for_status raises.
SentOutcomes == {"APIResponse", "HTTPStatusError"}

\* self._client = httpx.AsyncClient(...); return self
__aenter__ ==
    /\ Len(ops) < MaxOps
    /\ _client' = "open"
    /\ inside' = TRUE
    /\ ops' = Append(ops, "__aenter__")
    /\ UNCHANGED gets
    /\ UNCHANGED main_vars

\* if self._client: await self._client.aclose()
__aexit__ ==
    /\ Len(ops) < MaxOps
    /\ _client' = IF _client # "None" THEN "closed" ELSE _client
    /\ inside' = FALSE
    /\ ops' = Append(ops, "__aexit__")
    /\ UNCHANGED gets
    /\ UNCHANGED main_vars

\* get: RuntimeError without a client; otherwise self._client.get(endpoint),
\* which a closed httpx client refuses with a RuntimeError of its own
\* before anything is sent.
get ==
    /\ Len(ops) < MaxOps
    /\ \E outcome \in SentOutcomes :
           gets' = Append(gets,
               [inside |-> inside,
                _client |-> _client,
                sent |-> _client = "open",
                outcome |->
                    CASE _client = "None" ->
                             "RuntimeError: Client not initialized. Use async context manager."
                      [] _client = "closed" ->
                             "RuntimeError: Cannot send a request, as the client has been closed."
                      [] OTHER -> outcome])
    /\ ops' = Append(ops, "get")
    /\ UNCHANGED <<_client, inside>>
    /\ UNCHANGED main_vars

NextClient == __aenter__ \/ __aexit__ \/ get

SpecClient == Init /\ [][NextClient]_vars

(***************************************************************************)
(* Properties of main's report and verdict.                                *)
(***************************************************************************)

\* The items of a sequence, as a set.
Range(seq) == {seq[i] : i \in 1..Len(seq)}

RECURSIVE SumAll(_)
\* The sum of a sequence of numbers.
SumAll(seq) ==
    IF Len(seq) = 0 THEN 0
    ELSE IF Len(seq) = 1 THEN seq[1]
    ELSE LET m == Len(seq) \div 2
         IN  SumAll(SubSeq(seq, 1, m)) + SumAll(SubSeq(seq, m + 1, Len(seq)))

\* (a.role, a.file, a.line) <= (b.role, b.file, b.line): role and file
\* as strings, line as a number.
TripleLE(a, b) ==
    \/ StrLess(a.role, b.role)
    \/ a.role = b.role /\ StrLess(a.file, b.file)
    \/ a.role = b.role /\ a.file = b.file /\ a.line <= b.line

\* The path is on disk, decodes, and its text is Python the parser takes.
Loadable(path) ==
    /\ Str(path) \in DOMAIN disk
    /\ disk[Str(path)].utf8
    /\ disk[Str(path)].text \in DOMAIN Grammar

\* The path is on disk and decodes, and its text is a SyntaxError.
Unparsable(path) ==
    /\ Str(path) \in DOMAIN disk
    /\ disk[Str(path)].utf8
    /\ disk[Str(path)].text \notin DOMAIN Grammar

\* The path is not on disk.
Missing(path) == Str(path) \notin DOMAIN disk

\* There are invocations of every registered checker on the path, and what
\* they returned is among the collected issues.
Checked(path) ==
    \A r \in 1..Len(registry) :
        \E c \in 1..Len(calls) :
            /\ calls[c].file = path
            /\ calls[c].check_func = registry[r][2]
            /\ Range(calls[c].result) \subseteq Range(all_issues)

\* C1: when main has returned, the issues are printed in ascending order
\* of (role, file, line), role and file compared as strings and line as a
\* number, and the report is the header, two lines for each of these
\* issues in that order, and the total.
C1_ReportSorted ==
    pc = "done" =>
        /\ \A i, j \in 1..Len(printed) :
               i < j => TripleLE(printed[i], printed[j])
        /\ all_issues # <<>> =>
               /\ Len(out) = 2 * Len(printed) + 2
               /\ \A i \in 1..Len(printed) :
                      <<out[2 * i], out[2 * i + 1]>> = IssueLines(printed[i])

\* A finished run whose report lists issues of two files under one role
\* and issues of two roles, in an order other than the one collected.
C1_Witness ==
    /\ pc = "done"
    /\ printed # all_issues
    /\ \E i, j \in 1..Len(printed) :
           /\ i < j
           /\ printed[i].role = printed[j].role
           /\ printed[i].file # printed[j].file
    /\ \E i, j \in 1..Len(printed) : printed[i].role # printed[j].role

\* C2: main returns 0 if the collected issue list is empty when the loop
\* is over and 1 otherwise; a non-empty file list whose files are all
\* missing or unparsable ends with the one success line and 0.
C2_Verdict ==
    pc = "done" =>
        /\ ret \in {0, 1}
        /\ ret = 0 <=> all_issues = <<>>
        /\ (/\ files # <<>>
            /\ \A i \in 1..Len(files) :
                   Missing(files[i]) \/ Unparsable(files[i]))
           => /\ ret = 0
              /\ out = <<":white_check_mark: All role checks passed.">>

\* A finished run over a missing file and an unparsable file.
C2_Witness ==
    /\ pc = "done"
    /\ ret = 0
    /\ \E i, j \in 1..Len(files) : Missing(files[i]) /\ Unparsable(files[j])
    /\ \A i \in 1..Len(files) : Missing(files[i]) \/ Unparsable(files[i])

\* C4: a file whose text is a SyntaxError is passed to no checker and adds
\* no issue, no run ends in an exception at such a file, and in a finished
\* run every loadable file of the list, before and behind it, has been
\* checked by every registered checker with its issues collected.
C4_ParseFailureIsLocal ==
    /\ \A c \in 1..Len(calls) : ~Unparsable(calls[c].file)
    /\ \A i \in 1..Len(files) :
           Unparsable(files[i]) =>
               /\ \A x \in 1..Len(all_issues) :
                      all_issues[x].file # Str(files[i])
               /\ ~(pc = "raised" /\ idx = i)
    /\ pc = "done" =>
           \A i \in 1..Len(files) : Loadable(files[i]) => Checked(files[i])

\* A finished run over a loadable file with issues, then an unparsable
\* file, then another loadable file with issues.
C4_Witness ==
    /\ pc = "done"
    /\ Len(files) = 3
    /\ Loadable(files[1]) /\ Unparsable(files[2]) /\ Loadable(files[3])
    /\ \E x \in 1..Len(all_issues) : all_issues[x].file = Str(files[1])
    /\ \E x \in 1..Len(all_issues) : all_issues[x].file = Str(files[3])

\* C5: a listed path that is not on disk is not read, is passed to no
\* checker and adds no issue, no run ends in an exception at it, and in a
\* finished run every loadable file of the list has been checked.
C5_MissingFileSkipped ==
    /\ \A i \in 1..Len(files) :
           Missing(files[i]) =>
               /\ Str(files[i]) \notin Range(reads)
               /\ \A c \in 1..Len(calls) : calls[c].file # files[i]
               /\ \A x \in 1..Len(all_issues) :
                      all_issues[x].file # Str(files[i])
               /\ ~(pc = "raised" /\ idx = i)
    /\ pc = "done" =>
           \A i \in 1..Len(files) : Loadable(files[i]) => Checked(files[i])
                                    /\ Str(files[i]) \in Range(reads)

\* A finished run over a missing path followed by a loadable file with
\* issues.
C5_Witness ==
    /\ pc = "done"
    /\ Len(files) >= 2
    /\ Missing(files[1])
    /\ Loadable(files[2])
    /\ \E x \in 1..Len(all_issues) : all_issues[x].file = Str(files[2])

\* The pairs (position in files, position in the registry) of the checker
\* invocations a run over the list makes, in order: every registered
\* checker on every loadable file.
ExpectedCalls ==
    LET loadable == SelectSeq([i \in 1..Len(files) |-> i],
                              LAMBDA i : Loadable(files[i]))
    IN  ConcatAll([n \in 1..Len(loadable) |->
                      [r \in 1..Len(registry) |-> <<loadable[n], r>>]])

\* The length of what the checker at position r of the registry returns
\* for the file at position i of the list.
ResultLen(i, r) ==
    Len(Apply(registry[r][2], files[i], Grammar[disk[Str(files[i])].text],
              splitlines(disk[Str(files[i])].text)))

\* C6: the collected issues are the concatenation of what the checker
\* invocations returned, in order, nothing dropped; every issue a checker
\* returned carries the role the checker is registered under and str(file)
\* of the file it was given; and in a finished run the invocations are
\* those of every registered checker on every loadable file, and the number
\* of issues printed and the printed total are the sum over them of the
\* length of the checker's result.
C6_Aggregation ==
    /\ all_issues = ConcatAll([c \in 1..Len(calls) |-> calls[c].result])
    /\ \A c \in 1..Len(calls) :
           \A x \in 1..Len(calls[c].result) :
               /\ calls[c].result[x].role = calls[c].role
               /\ calls[c].result[x].file = Str(calls[c].file)
    /\ (pc = "done" /\ files # <<>>) =>
           LET total == SumAll([n \in 1..Len(ExpectedCalls) |->
                           ResultLen(ExpectedCalls[n][1], ExpectedCalls[n][2])])
           IN  /\ Len(calls) = Len(ExpectedCalls)
               /\ \A n \in 1..Len(calls) :
                      /\ calls[n].file = files[ExpectedCalls[n][1]]
                      /\ calls[n].role = registry[ExpectedCalls[n][2]][1]
               /\ Len(printed) = total
               /\ total > 0 =>
                      /\ Len(out) = 2 * total + 2
                      /\ out[Len(out)] =
                             "Total: " \o ToString(total) \o " issue(s)\n"

\* A finished run over two files with issues, one of which has the same
\* issue twice.
C6_Witness ==
    /\ pc = "done"
    /\ \E i, j \in 1..Len(files) :
           /\ i # j
           /\ \E x \in 1..Len(all_issues) : all_issues[x].file = Str(files[i])
           /\ \E x \in 1..Len(all_issues) : all_issues[x].file = Str(files[j])
    /\ \E x, y \in 1..Len(printed) : x # y /\ printed[x] = printed[y]
    /\ Len(printed) = Len(all_issues)

\* C8: with an empty list of changed files main returns 0 and has printed
\* nothing, read no file and invoked no checker.
C8_EmptyListSilent ==
    (pc = "done" /\ files = <<>>) =>
        /\ ret = 0
        /\ out = <<>>
        /\ printed = <<>>
        /\ reads = <<>>
        /\ calls = <<>>

\* main has returned on an empty list of changed files.
C8_Witness ==
    /\ pc = "done"
    /\ files = <<>>
    /\ ret = 0
    /\ runs = 1

\* The orders a list can be in.
Orders(seq) ==
    {[i \in 1..Len(seq) |-> seq[p[i]]] : p \in Permutations(1..Len(seq))}

\* What a run of main over a list of files that load collects with the
\* checkers invoked in the order of the items reg.
Collected(list, reg) ==
    ConcatAll([n \in 1..Len(list) |->
        ConcatAll([r \in 1..Len(reg) |->
            Apply(reg[r][2], list[n], Grammar[disk[Str(list[n])].text],
                  splitlines(disk[Str(list[n])].text))])])

\* C3: the report a finished run has printed, with the checkers invoked in
\* whatever order the registry has, is the report of a run over the same
\* files in any other order with the checkers in the order of ROLES: the
\* printed lines and the total do not depend on either order.
C3_OrderIndependent ==
    (pc = "done" /\ files # <<>>) =>
        \A list \in Orders(SelectSeq(files, Loadable)) :
            out = Report(Collected(list, ROLES))

\* A finished run over two files with issues, with the checkers in another
\* order than ROLES, that has printed two issues of one (role, file, line)
\* with different messages.
C3_Witness ==
    /\ pc = "done"
    /\ registry # ROLES
    /\ Len(files) >= 2
    /\ \A i \in 1..Len(files) :
           \E x \in 1..Len(printed) : printed[x].file = Str(files[i])
    /\ \E x, y \in 1..Len(printed) :
           /\ printed[x].role = printed[y].role
           /\ printed[x].file = printed[y].file
           /\ printed[x].line = printed[y].line
           /\ printed[x].message # printed[y].message

\* Two invocations were given the same arguments.
SameArgs(a, b) ==
    /\ a.check_func = b.check_func
    /\ a.file = b.file
    /\ a.tree = b.tree
    /\ a.lines = b.lines

\* C7 as stated: every checker's result is a function only of the
\* (path, AST, raw_lines) it is given, so any two invocations with the same
\* arguments returned the same list whatever happened in between.
C7_CheckersPure ==
    \A a, b \in 1..Len(calls) :
        SameArgs(calls[a], calls[b]) => calls[a].result = calls[b].result

\* C7, amended: check_dev, check_tester, check_reviewer and
\* check_best_practice return the same list for the same arguments
\* whatever happened to the working tree in between, and check_architect
\* does when the working tree was not changed in between; the checkers of
\* one run are all given the tree and the lines loaded for the file,
\* changed by none of them; and the issues collected in a run are the
\* results of its invocations one after the other, none changed by a later
\* invocation.
C7_PureButArchitect ==
    /\ \A a, b \in 1..Len(calls) :
           (/\ SameArgs(calls[a], calls[b])
            /\ \/ calls[a].check_func # "check_architect"
               \/ calls[a].epoch = calls[b].epoch)
               => calls[a].result = calls[b].result
    /\ \A a, b \in 1..Len(calls) :
           (calls[a].run = calls[b].run /\ calls[a].file = calls[b].file)
               => (calls[a].tree = calls[b].tree
                   /\ calls[a].lines = calls[b].lines)
    /\ LET own == SelectSeq(calls, LAMBDA c : c.run = runs)
       IN  all_issues = ConcatAll([c \in 1..Len(own) |-> own[c].result])

\* Two runs with the working tree changed in between: check_architect was
\* given the same arguments in both and returned two different lists, and
\* check_dev was given the same arguments in both and returned issues.
C7_Witness ==
    /\ \E a, b \in 1..Len(calls) :
           /\ calls[a].check_func = "check_architect"
           /\ SameArgs(calls[a], calls[b])
           /\ calls[a].epoch # calls[b].epoch
           /\ calls[a].result # calls[b].result
    /\ \E a, b \in 1..Len(calls) :
           /\ calls[a].check_func = "check_dev"
           /\ SameArgs(calls[a], calls[b])
           /\ calls[a].epoch # calls[b].epoch
           /\ calls[a].result # <<>>
    /\ pc = "done"
    /\ all_issues # <<>>

(***************************************************************************)
(* Properties of the checkers.                                             *)
(***************************************************************************)

\* The positions in a list of issues of those whose message starts with
\* the given text.
Hits(issues, text) ==
    {x \in 1..Len(issues) : StartsWith(issues[x].message, text)}

\* C9: what check_dev returns has the 'File too long' issue once, at line
\* 1, when it was given more than 200 raw lines, and not at all otherwise,
\* whatever the tree: none for 200 lines, one for 201.
C9_FileTooLong ==
    \A c \in 1..Len(calls) :
        calls[c].check_func = "check_dev" =>
            LET hits == Hits(calls[c].result, "File too long")
                n == Len(calls[c].lines)
            IN  /\ Cardinality(hits) = IF n > 200 THEN 1 ELSE 0
                /\ \A x \in hits : calls[c].result[x].line = 1
                /\ n = 200 => hits = {}
                /\ n = 201 => Cardinality(hits) = 1

\* check_dev has returned for 201 raw lines and a tree with a function:
\* one 'File too long' issue among others.
C9_Witness ==
    \E c \in 1..Len(calls) :
        /\ calls[c].check_func = "check_dev"
        /\ Len(calls[c].lines) = 201
        /\ calls[c].tree = Ast_APP
        /\ Cardinality(Hits(calls[c].result, "File too long")) = 1
        /\ Len(calls[c].result) > 1

\* The path names a test file: its name begins with test_, or one of its
\* directories, the first included, is named tests.
TestPath(path) ==
    \/ StartsWith(Name(path), "test_")
    \/ \E i \in 1..(Len(path.parts) - 1) : path.parts[i] = "tests"

\* The number of assert statements in a tree.
NumAsserts(ast) == Cardinality({i \in 1..Len(ast) : ast[i].type = "Assert"})

\* C10: check_tester returns one issue for every assert statement of the
\* tree when the path names no test file, and no issue when it does.
C10_TesterExemptsTestPaths ==
    \A c \in 1..Len(calls) :
        calls[c].check_func = "check_tester" =>
            IF TestPath(calls[c].file)
            THEN calls[c].result = <<>>
            ELSE Len(calls[c].result) = NumAsserts(calls[c].tree)

\* The issues of a list that are at a line and whose message begins with
\* a text.
HitsAt(issues, line, text) ==
    {x \in Hits(issues, text) : issues[x].line = line}

\* The line has an environment-lookup idiom.
EnvLookup(line) == Contains("os.getenv", line) \/ Contains("environ", line)

\* The line suggests a secret: a keyword in its lowercase form, an equals
\* sign and a quote character.
SecretSuggestive(line) ==
    /\ \E kw \in {"password", "secret", "api_key", "apikey", "token",
                  "credential"} : Contains(kw, Lower(line))
    /\ Contains("=", line)
    /\ Contains("\"", line) \/ Contains("'", line)

\* C11: check_best_practice has the hardcoded-secret issue exactly once for
\* a raw line that suggests a secret and has no environment-lookup idiom,
\* however many of the keywords the line contains, and not at all for a
\* line with an environment-lookup idiom.
C11_OneSecretIssuePerLine ==
    \A c \in 1..Len(calls) :
        calls[c].check_func = "check_best_practice" =>
            \A i \in 1..Len(calls[c].lines) :
                LET line == calls[c].lines[i]
                    n == Cardinality(HitsAt(calls[c].result, i,
                                            "Possible hardcoded secret"))
                IN  /\ (SecretSuggestive(line) /\ ~EnvLookup(line)) => n = 1
                    /\ EnvLookup(line) => n = 0

\* The except handlers of a tree that name no exception type.
BareExcepts(ast) ==
    {i \in 1..Len(ast) :
        /\ ast[i].type = "ExceptHandler"
        /\ ~\E j \in 1..Len(ast) : ast[j].parent = i /\ ast[j].field = "type"}

\* The calls of a tree whose callee is the bare name eval or exec.
EvalCalls(ast) ==
    {i \in 1..Len(ast) :
        /\ ast[i].type = "Call"
        /\ \E j \in 1..Len(ast) :
               /\ ast[j].parent = i
               /\ ast[j].field = "func"
               /\ ast[j].type = "Name"
               /\ ast[j].id \in {"eval", "exec"}}

\* No raw line suggests a secret.
NoSecretLine(text) ==
    \A i \in 1..Len(text) : ~SecretSuggestive(text[i])

\* C12: for a file with no secret-suggestive line, one except handler
\* without a type and one call of the bare name eval or exec,
\* check_best_practice returns two issues, one for the bare except at the
\* handler's line and one for the call at the call's line, wherever the two
\* are in the tree.
C12_BareExceptAndEval ==
    \A c \in 1..Len(calls) :
        (/\ calls[c].check_func = "check_best_practice"
         /\ NoSecretLine(calls[c].lines)
         /\ Cardinality(BareExcepts(calls[c].tree)) = 1
         /\ Cardinality(EvalCalls(calls[c].tree)) = 1)
        => /\ Len(calls[c].result) = 2
           /\ \A h \in BareExcepts(calls[c].tree) :
                  Cardinality(HitsAt(calls[c].result, calls[c].tree[h].lineno,
                                     "Avoid bare except")) = 1
           /\ \A e \in EvalCalls(calls[c].tree) :
                  \/ Cardinality(HitsAt(calls[c].result,
                        calls[c].tree[e].lineno, "Avoid eval()")) = 1
                  \/ Cardinality(HitsAt(calls[c].result,
                        calls[c].tree[e].lineno, "Avoid exec()")) = 1

\* check_best_practice has returned two issues for the tree with a call of
\* exec in a function and, behind it, a bare except in a nested function.
C12_Witness ==
    \E c \in 1..Len(calls) :
        /\ calls[c].check_func = "check_best_practice"
        /\ calls[c].tree = Ast_EXC_IN_DEF
        /\ Len(calls[c].result) = 2
        /\ calls[c].result[1].message # calls[c].result[2].message

\* main has returned from a run over the one file big.py: 201 raw lines, a
\* function of 35 lines with 6 parameters, and a bare except.
BigRunDone ==
    /\ pc = "done"
    /\ files = <<PathOf("big.py")>>
    /\ Len(lines) = 201
    /\ \E i \in 1..Len(tree) :
           /\ IsFunctionDef(tree[i])
           /\ tree[i].end_lineno - tree[i].lineno + 1 = 35
           /\ NumArgs(tree, i) = 6
    /\ Cardinality(BareExcepts(tree)) = 1

\* In the printed report every best_practice issue is before every dev
\* issue.
BestPracticeFirst ==
    \A x, y \in 1..Len(printed) :
        (printed[x].role = "best_practice" /\ printed[y].role = "dev")
            => x < y

\* C13 as stated: the run over that file yields exactly 3 issues in total,
\* the bare-except issue printed before every dev issue.
C13_ThreeIssues ==
    BigRunDone =>
        /\ Len(printed) = 3
        /\ out[Len(out)] = "Total: 3 issue(s)\n"
        /\ BestPracticeFirst

\* C13, amended: the run over that file yields exactly 4 issues in total,
\* the best_practice bare-except issue and the three dev issues for the
\* file's length, the function's length and the function's parameters; the
\* bare-except issue is printed first and main returns 1.
C13_FourIssues ==
    BigRunDone =>
        /\ Len(printed) = 4
        /\ Len(all_issues) = 4
        /\ out[Len(out)] = "Total: 4 issue(s)\n"
        /\ printed[1].role = "best_practice"
        /\ StartsWith(printed[1].message, "Avoid bare except")
        /\ \A x \in 2..4 : printed[x].role = "dev"
        /\ Cardinality(Hits(printed, "File too long: 201 > 200")) = 1
        /\ Cardinality(Hits(printed, "Function 'f' too long: 35 > 30")) = 1
        /\ Cardinality(Hits(printed, "Function 'f' has 6 args > 5")) = 1
        /\ BestPracticeFirst
        /\ ret = 1

\* main has returned 1 from the run over big.py with the report printed.
C13_Witness ==
    /\ BigRunDone
    /\ ret = 1
    /\ Len(out) > 1
    /\ \E x \in 1..Len(printed) : printed[x].role = "best_practice"
    /\ \E x \in 1..Len(printed) : printed[x].role = "dev"

\* A file of the given name is on disk in the directory.
Holds(dir, name) == Str(Div(dir, name)) \in DOMAIN disk

\* The directory is a package root: it has a manifest or is named packages.
IsPackageRoot(dir) == Holds(dir, "pyproject.toml") \/ Name(dir) = "packages"

\* The file's text on disk has a route marker.
RouteMarkers(file) ==
    LET text == disk[Str(file)].text
    IN  \/ Contains("router", Lower(text))
        \/ Contains("@app.", text)
        \/ Contains("APIRouter", text)

\* The file has a package root above it, the nearest one is not the
\* packages directory itself and holds no OpenAPI file.
RootWithoutOpenApi(file) ==
    LET dirs == AncestorDirs(file)
        roots == {j \in 1..Len(dirs) : IsPackageRoot(dirs[j])}
    IN  /\ roots # {}
        /\ LET root == dirs[CHOOSE j \in roots : \A j2 \in roots : j <= j2]
           IN  /\ Name(root) # "packages"
               /\ ~Holds(root, "openapi.yaml")
               /\ ~Holds(root, "openapi.yml")
               /\ ~Holds(root, "openapi.json")

\* C14: check_architect has the missing-OpenAPI issue, once, exactly for a
\* file with route markers whose nearest package root (a directory above
\* it with pyproject.toml, or named packages) is not the packages directory
\* and holds none of openapi.yaml, openapi.yml, openapi.json; a file with
\* no package root above it, and a file without route markers, has none.
C14_OpenApiAtPackageRoot ==
    \A c \in 1..Len(calls) :
        calls[c].check_func = "check_architect" =>
            Cardinality(Hits(calls[c].result, "API routes found")) =
                IF RouteMarkers(calls[c].file)
                   /\ RootWithoutOpenApi(calls[c].file)
                THEN 1 ELSE 0

\* C15: no exception leaves main: whatever the listed files are, a file
\* with bytes that are no UTF-8 included, main is never left by an
\* exception of a read or of a checker.
C15_NoExceptionLeavesMain == pc # "raised"

\* main has ended, by a return or by an exception.
Ended == pc \in {"done", "raised"}

\* The loop has passed no more files than are listed, no checker was
\* invoked twice on a file in one run, and no file was read more often
\* than once by main and once by check_architect.
OncePerPath ==
    /\ idx <= Len(files) + 1
    /\ \A a, b \in 1..Len(calls) :
           (/\ calls[a].run = calls[b].run
            /\ calls[a].file = calls[b].file
            /\ calls[a].check_func = calls[b].check_func) => a = b
    /\ \A i \in 1..Len(files) :
           Cardinality({x \in 1..Len(reads) : reads[x] = Str(files[i])}) <= 2

\* The walk of every invocation of check_architect has stopped at the
\* file's directory or a directory above it: one with pyproject.toml, one
\* named packages, or the top of the path, which is its own parent.
WalkStops ==
    \A c \in 1..Len(calls) :
        calls[c].check_func = "check_architect" =>
            LET start == Parent(calls[c].file)
                stop == PackageRoot(start)
            IN  /\ stop = start \/ stop \in Range(AncestorDirs(start))
                /\ \/ Holds(stop, "pyproject.toml")
                   \/ Name(stop) = "packages"
                   \/ stop = Parent(stop)

\* main can take a step wherever it has not ended: at its start, at a file
\* of the list (which is missing, raises on the read, fails to parse or
\* loads), behind the list, and at a checker of the registry.
CanStep ==
    \/ Ended
    \/ pc = "start"
    \/ pc = "for" /\ idx > Len(files)
    \/ /\ pc = "for"
       /\ idx \in 1..Len(files)
       /\ \/ ~exists(files[idx])
          \/ read_text_raises(files[idx]) # ""
          \/ ast_parse(read_text(files[idx])).ok \in BOOLEAN
    \/ pc = "checks" /\ idx \in 1..Len(files) /\ k \in 1..Len(registry)

\* The steps main has left at most: one for each checker and one for the
\* load of every file not yet passed, and the report.
StepsLeft ==
    CASE pc = "for" ->
             (Len(files) - idx + 1) * (Len(registry) + 1) + 1
      [] pc = "checks" ->
             (Len(files) - idx) * (Len(registry) + 1)
             + (Len(registry) - k + 1) + 1
      [] OTHER -> 0

\* A step of main either leaves the start, where the list is not yet
\* known, or leaves fewer steps than there were.
Descends ==
    \/ pc = "start" /\ pc' # "start"
    \/ pc # "start" /\ pc' # "start" /\ StepsLeft' < StepsLeft

\* C16: every run ends: main can step wherever it has not ended, and every
\* step leaves fewer of a number of steps bounded by the length of the
\* list; on the way the loop passes each listed path once, and the
\* package-root walk of check_architect stops within the directories above
\* the file, for relative and absolute paths.
C16_Terminates ==
    /\ [](OncePerPath /\ WalkStops /\ CanStep /\ StepsLeft >= 0)
    /\ [][Descends]_vars

\* main has returned after check_architect walked from the directory of an
\* absolute path up to the root directory, and it reported there.
C16_Witness ==
    /\ pc = "done"
    /\ \E c \in 1..Len(calls) :
           /\ calls[c].check_func = "check_architect"
           /\ calls[c].file.root = "/"
           /\ Len(calls[c].file.parts) >= 3
           /\ PackageRoot(Parent(calls[c].file)) = PathOf("/")
           /\ calls[c].result # <<>>

(***************************************************************************)
(* Properties of APIClient.                                                *)
(***************************************************************************)

\* C17: every get called while the instance is not inside an active async
\* context, before the first __aenter__ or after an __aexit__, has raised
\* RuntimeError 'Client not initialized' and sent no request; and inside
\* an active context the client is not None.
C17_GetOutsideContextRaises ==
    /\ \A g \in 1..Len(gets) :
           ~gets[g].inside =>
               /\ StartsWith(gets[g].outcome,
                             "RuntimeError: Client not initialized")
               /\ ~gets[g].sent
    /\ inside => _client # "None"

\* The roles in the order main is to invoke their checkers.
RoleOrder == <<"dev", "tester", "reviewer", "best_practice", "architect">>

\* The position in the list of the file an invocation was given.
FilePos(c) == CHOOSE i \in 1..Len(files) : files[i] = calls[c].file

\* C18: the checkers are invoked in rounds of five, dev, tester, reviewer,
\* best_practice, architect, each round on one loadable file, each file in
\* one round only and the rounds in the order of the list; main is at the
\* next file, or behind the loop, only with every round complete; and the
\* registry is as ROLES was defined.
C18_FixedCheckerOrder ==
    /\ registry = [r \in 1..5 |-> <<RoleOrder[r], "check_" \o RoleOrder[r]>>]
    /\ \A c \in 1..Len(calls) :
           LET r == ((c - 1) % 5) + 1
           IN  /\ calls[c].role = RoleOrder[r]
               /\ calls[c].check_func = "check_" \o RoleOrder[r]
               /\ Loadable(calls[c].file)
               /\ calls[c].file = calls[c - r + 1].file
               /\ (c > 5 /\ r = 1) => FilePos(c - 5) < FilePos(c)
    /\ pc = "checks" => Len(calls) % 5 = k - 1
    /\ pc = "checks" /\ k > 1 => calls[Len(calls)].file = files[idx]
    /\ pc \in {"for", "done", "raised"} => Len(calls) % 5 = 0

\* main has returned from a run over three files, the second one not
\* loadable, with two rounds of five invocations.
C18_Witness ==
    /\ pc = "done"
    /\ Len(files) = 3
    /\ ~Loadable(files[2])
    /\ Len(calls) = 10
    /\ calls[5].file = files[1]
    /\ calls[6].file = files[3]

\* The definitions of functions and coroutine functions of a tree.
FunctionDefs(ast) == {i \in 1..Len(ast) : IsFunctionDef(ast[i])}

\* The number of lines of a definition, 0 with no end line.
SpanOf(node) ==
    IF node.end_lineno = 0 THEN 0 ELSE node.end_lineno - node.lineno + 1

\* The number of positional parameters of a definition: the
\* positional-only ones and the ones that may also be passed by keyword.
PositionalParams(ast, i) ==
    Cardinality({j \in 1..Len(ast) :
        /\ ast[j].field \in {"posonlyargs", "args"}
        /\ ast[j].type = "arg"
        /\ ast[ast[j].parent].type = "arguments"
        /\ ast[ast[j].parent].parent = i})

\* C19: for every definition of a function or of a coroutine function in
\* the tree, check_dev returns one "too long" issue at the definition's line
\* if it has more than 30 lines (0 with no end line) and none otherwise,
\* and one "args" issue if it has more than 5 positional parameters and
\* none otherwise.
C19_LengthAndArgsRules ==
    \A c \in 1..Len(calls) :
        calls[c].check_func = "check_dev" =>
            \A i \in FunctionDefs(calls[c].tree) :
                LET node == calls[c].tree[i]
                    long == HitsAt(calls[c].result, node.lineno,
                                   "Function '" \o node.name \o "' too long")
                    many == HitsAt(calls[c].result, node.lineno,
                                   "Function '" \o node.name \o "' has ")
                IN  /\ Cardinality(long) = IF SpanOf(node) > 30 THEN 1 ELSE 0
                    /\ Cardinality(many) =
                           IF PositionalParams(calls[c].tree, i) > 5
                           THEN 1 ELSE 0

\* The line has an occurrence of TODO with no "(" right behind it.
UnattributedTodo(line) ==
    \E p \in 1..Len(line) :
        /\ p + 3 <= Len(line)
        /\ SubSeq(line, p, p + 3) = "TODO"
        /\ IF p + 4 <= Len(line) THEN At(line, p + 4) # "(" ELSE TRUE

\* C20: check_reviewer returns one missing-author issue at a raw line's
\* 1-based number if the line has an occurrence of TODO that is not
\* immediately followed by "(", and none at that number otherwise; a line
\* with an attributed TODO( and a second, unattributed TODO gets the issue.
C20_UnattributedTodoFlagged ==
    \A c \in 1..Len(calls) :
        calls[c].check_func = "check_reviewer" =>
            \A i \in 1..Len(calls[c].lines) :
                Cardinality(HitsAt(calls[c].result, i,
                                   "TODO must have author")) =
                    IF UnattributedTodo(calls[c].lines[i]) THEN 1 ELSE 0

\* The class definitions and the import statements of a tree, wherever
\* they are in it.
ClassDefs(ast) == {i \in 1..Len(ast) : ast[i].type = "ClassDef"}
ImportStmts(ast) ==
    {i \in 1..Len(ast) : ast[i].type \in {"Import", "ImportFrom"}}

\* The number of methods of a class: the function and coroutine-function
\* definitions of its body.
MethodCount(ast, i) ==
    Cardinality({j \in 1..Len(ast) :
        /\ ast[j].parent = i
        /\ ast[j].field = "body"
        /\ IsFunctionDef(ast[j])})

\* The classes of a tree with more than 10 methods.
BigClasses(ast) == {i \in ClassDefs(ast) : MethodCount(ast, i) > 10}

\* C21: check_architect returns one "too many classes" issue, at line 1,
\* if the tree has more than 2 class definitions and none otherwise; one
\* "too many methods" issue for each class with more than 10 methods, at
\* the class's line, and no other; and one "too many imports" issue, at
\* line 1, if the tree has more than 15 import statements and none
\* otherwise; classes and imports are counted at any depth of the tree.
C21_CountLimitsStrict ==
    \A c \in 1..Len(calls) :
        calls[c].check_func = "check_architect" =>
            LET ast == calls[c].tree
                res == calls[c].result
            IN  /\ Cardinality(Hits(res, "Too many classes in file")) =
                       IF Cardinality(ClassDefs(ast)) > 2 THEN 1 ELSE 0
                /\ Hits(res, "Too many classes in file")
                       = HitsAt(res, 1, "Too many classes in file")
                /\ Cardinality(Hits(res, "Too many imports")) =
                       IF Cardinality(ImportStmts(ast)) > 15 THEN 1 ELSE 0
                /\ Hits(res, "Too many imports")
                       = HitsAt(res, 1, "Too many imports")
                /\ Cardinality(Hits(res, "Class '"))
                       = Cardinality(BigClasses(ast))
                /\ \A i \in ClassDefs(ast) :
                       Cardinality(HitsAt(res, ast[i].lineno,
                           "Class '" \o ast[i].name
                           \o "' has too many methods")) =
                           IF i \in BigClasses(ast) THEN 1 ELSE 0

\* check_architect has returned the three issues for the file with 16
\* imports and three classes, one of them with 11 methods.
C21_Witness ==
    \E c \in 1..Len(calls) :
        /\ calls[c].check_func = "check_architect"
        /\ calls[c].tree = Ast_ALL3
        /\ Cardinality(ImportStmts(calls[c].tree)) = 16
        /\ Cardinality(ClassDefs(calls[c].tree)) = 3
        /\ Cardinality(BigClasses(calls[c].tree)) = 1
        /\ Len(calls[c].result) = 3

====
